---- MODULE Spec2Model ----
(***************************************************************************)
(* The job lifecycle engine of nusaLaunchd: the registry of job instances  *)
(* (job/manager.rs), the process spawner with its detached monitor tasks   *)
(* (process/spawner.rs), the restart-request handler and the event bus     *)
(* (event/dispatcher.rs).  Every action is one stretch of code executed    *)
(* between two suspension points; the registry lock is held only inside    *)
(* an action, so every state of the model is a state a reader of the       *)
(* registry (get_job_status, list_jobs) can observe.                       *)
(*                                                                         *)
(* Time: an Instant is only ever compared with the clock, so the model     *)
(* keeps, for every deadline, the seconds left until it (0 once it has     *)
(* passed) and lets Tick take the elapsed time off all of them.            *)
(***************************************************************************)
EXTENDS Integers, Sequences, FiniteSets

VARIABLES
    jobs,          \* registry: the map label -> JobInstance of the loaded jobs
    children,      \* child processes ever spawned, indexed by pid
    pendingStart,  \* label -> start_job calls issued, waiting for the registry lock
    startSpawn,    \* label -> start_job calls past the state check, about to spawn
    startOk,       \* pids whose start_job call waits for the lock to finalize
    startErr,      \* label -> start_job calls whose spawn failed, waiting to finalize
    stops,         \* stop_job / restart_job calls in flight
    restartQ,      \* the restart-request channel
    handler,       \* the background task running handle_restart_request
    bus,           \* the event channel: the events sent that the receiver has
                   \* still to act on
    sent,          \* the events that have ever been placed on the channel
    ncalls,        \* number of external calls issued so far
    call,          \* the call that the last step completed, with its result
    rxOpen,        \* the receiver of the event channel has not been dropped
    supervisor,    \* the JobSupervisor: its restart queue and backoff tracker
    restartPath    \* who holds the registry lock on the way from an exit to
                   \* the wake-up, and how full the restart channel is

vars == <<jobs, children, pendingStart, startSpawn, startOk, startErr, stops,
          restartQ, handler, bus, sent, ncalls, call, rxOpen, supervisor,
          restartPath>>

----------------------------------------------------------------------------
(* Bounds of the model *)

\* external calls (load_job, start_job, stop_job, restart_job) in one run
MaxCalls == 3

\* concurrent start_job calls on one stopped job (SpecC2)
MaxStarts == 4

\* children a job that always fails is given (SpecC7)
MaxRuns == 5

Labels == {"a"}

----------------------------------------------------------------------------
(* Values *)

None == <<>>
Some(x) == <<x>>
IsSome(o) == o # <<>>
Unwrap(o) == o[1]

\* JobState (manager.rs 14-22); Failed carries its reason
Stopped == <<"Stopped">>
Starting == <<"Starting">>
Running == <<"Running">>
Stopping == <<"Stopping">>
Restarting == <<"Restarting">>
Backoff == <<"Backoff">>
FailedToStart == <<"Failed", "Failed to start">>
FailedMaxRestarts(n) == <<"Failed", "Exceeded max restarts", n>>
IsFailed(s) == s[1] = "Failed"

\* SupervisionConfig (config.rs 41-58) of the job descriptions the model loads
Supervision(ka, pol, delay, maxr) ==
    [keep_alive |-> ka, restart_policy |-> pol,
     restart_delay_sec |-> delay, max_restarts |-> maxr]

\* a one-shot job whose policy is dormant, a service restarted without limit
\* and a service that may be restarted once
ConfigSet ==
    { Supervision(FALSE, "Always", 1, 0),
      Supervision(TRUE, "OnFailure", 200, 0),
      Supervision(TRUE, "OnCrash", 1, 1) }

\* jobs.contains_key(label)
Loaded(l) == l \in DOMAIN jobs

\* jobs.insert(label, instance)
Insert(m, l, inst) == [x \in DOMAIN m \cup {l} |-> IF x = l THEN inst ELSE m[x]]

Pids == 1..Len(children)

\* The events the receiver of the channel acts on: the exit notification of a
\* monitor goes to handle_process_exit, JobReadyForRestart tells that start_job
\* may be called.  Every other event is only logged (dispatcher.rs 33-66): the
\* model lets the receiver take those at once, they stay in the history only.
IsMonitorExit(e) == e[1] = "JobExited" /\ e[7] = "monitor"
IsActionable(e) == IsMonitorExit(e) \/ e[1] = "JobReadyForRestart"

\* EventDispatcher::send (dispatcher.rs 19-26): the events es, in order, go to
\* the back of the channel b
Send(b, es) == b \o SelectSeq(es, IsActionable)

\* What the history keeps of an event: its kind and label, and the child for
\* JobStarted and JobExited (with who published it)
Ident(e) ==
    CASE e[1] = "JobStarted" -> <<e[1], e[2], e[3]>>
      [] e[1] = "JobExited" -> <<e[1], e[2], e[6], e[7]>>
      [] OTHER -> <<e[1], e[2]>>

\* The events es are published: they enter the channel and the history.
\* tx.send fails when the receiver has been dropped (dispatcher.rs 23-24):
\* then nothing is placed anywhere
Publish(es) ==
    IF rxOpen
    THEN /\ bus' = Send(bus, es)
         /\ sent' = sent \cup {Ident(es[i]) : i \in 1..Len(es)}
    ELSE UNCHANGED <<bus, sent>>

\* The result of an operation that ends with `send(..).await?` and would
\* return r (dispatcher.rs 23-25): the System error if the send failed
Sent(r) == IF rxOpen THEN r ELSE "System"

\* the last step completed no call
NoCall == [fn |-> "none"]

\* The call fn(l) has returned r; at tells where in fn: at the "lookup" of the
\* label, at the "check" of the state, or at the "end"
Returned(fn, l, r, at) == [fn |-> fn, label |-> l, result |-> r, at |-> at]

\* The call fn(l) has returned r at its end, and es are the events it has
\* placed on the channel on its way
ReturnedWith(fn, l, r, es) ==
    [fn |-> fn, label |-> l, result |-> r, at |-> "end", emitted |-> es]

\* JobSupervisor::new (supervisor.rs 16-22): an empty queue and an empty
\* tracker; now is the clock its Instants are read from, in whole seconds,
\* and scheduled counts the schedule_restart calls made so far
NewSupervisor == [queue |-> <<>>, tracker |-> <<>>, now |-> 0, scheduled |-> 0]

\* JobManager::new (manager.rs 46-64): nobody holds the lock, the restart
\* channel is empty, the restart handler waits in recv
NewRestartPath ==
    [exits |-> 0, hpe |-> "idle", chan |-> 0, handler |-> "recv",
     backoff |-> 0, ready |-> 0]

----------------------------------------------------------------------------
Init ==
    /\ jobs = <<>>
    /\ children = <<>>
    /\ pendingStart = [l \in Labels |-> 0]
    /\ startSpawn = [l \in Labels |-> 0]
    /\ startOk = {}
    /\ startErr = [l \in Labels |-> 0]
    /\ stops = {}
    /\ restartQ = <<>>
    /\ handler = [pc |-> "idle", label |-> "", wake |-> 0]
    /\ bus = <<>>
    /\ sent = {}
    /\ ncalls = 0
    /\ call = NoCall
    /\ rxOpen = TRUE
    /\ supervisor = NewSupervisor
    /\ restartPath = NewRestartPath

\* an instance that load_job creates already Starting
NewInstanceStarting(cfg) ==
    [config |-> cfg, state |-> Starting, pid |-> None, start_time |-> None,
     restart_count |-> 0, last_exit_code |-> None, last_exit_signal |-> None,
     backoff_until |-> None, process_handle |-> None]

\* JobInstance created by load_job (manager.rs 97-107)
NewInstance(cfg) ==
    [config |-> cfg, state |-> Stopped, pid |-> None, start_time |-> None,
     restart_count |-> 0, last_exit_code |-> None, last_exit_signal |-> None,
     backoff_until |-> None, process_handle |-> None]

\* a load_job that announces nothing
LoadEventsNone(l) == <<>>

\* What load_job publishes for a new label (manager.rs 112)
LoadEvents(l) == << <<"JobLoaded", l>> >>

\* a load_job that does not look the label up: it inserts over what is there
LoadJobOverwrite(l, cfg) ==
    /\ ncalls < MaxCalls
    /\ ncalls' = ncalls + 1
    /\ jobs' = Insert(jobs, l, NewInstance(cfg))
    /\ Publish(LoadEvents(l))
    /\ pendingStart' = [pendingStart EXCEPT
                          ![l] = IF cfg.keep_alive THEN @ + 1 ELSE @]
    /\ UNCHANGED <<children, startSpawn, startOk, startErr, stops, restartQ,
                   handler>>
    /\ call' = Returned("load_job", l, "Ok", "end")
    /\ UNCHANGED <<rxOpen, supervisor, restartPath>>

\* JobManager::load_job (manager.rs 84-130).  The write lock is held from the
\* lookup to the return, so insert, JobLoaded and the auto-start task are one step.
LoadJob(l, cfg) ==
    /\ ncalls < MaxCalls
    /\ ncalls' = ncalls + 1
    /\ IF Loaded(l)
       THEN UNCHANGED <<jobs, bus, sent, pendingStart>>
       ELSE /\ jobs' = Insert(jobs, l, NewInstance(cfg))
            /\ Publish(LoadEvents(l))
            /\ pendingStart' = [pendingStart EXCEPT
                                  ![l] = IF cfg.keep_alive /\ rxOpen
                                         THEN @ + 1 ELSE @]
    /\ UNCHANGED <<children, startSpawn, startOk, startErr, stops, restartQ,
                   handler>>
    /\ call' = Returned("load_job", l,
                        IF Loaded(l) THEN "JobExists" ELSE Sent("Ok"),
                        IF Loaded(l) THEN "lookup" ELSE "end")
    /\ UNCHANGED <<rxOpen, supervisor, restartPath>>

\* An external caller issues start_job(l); the call then waits for the lock
CallStartJob(l) ==
    /\ ncalls < MaxCalls
    /\ ncalls' = ncalls + 1
    /\ pendingStart' = [pendingStart EXCEPT ![l] = @ + 1]
    /\ UNCHANGED <<jobs, children, startSpawn, startOk, startErr, stops,
                   restartQ, handler, bus, sent>>
    /\ call' = NoCall
    /\ UNCHANGED <<rxOpen, supervisor, restartPath>>

----------------------------------------------------------------------------
(* start_job *)

\* a state check that lets a call through while another one is mid-spawn
StartIsNoopUnlessStarting(inst) ==
    \/ inst.state = Running
    \/ /\ inst.state = Backoff
       /\ IsSome(inst.backoff_until)
       /\ Unwrap(inst.backoff_until) > 0

\* a state check that lets a call through while the job is running
StartIsNoopUnlessRunning(inst) ==
    \/ inst.state = Starting
    \/ /\ inst.state = Backoff
       /\ IsSome(inst.backoff_until)
       /\ Unwrap(inst.backoff_until) > 0

\* a state check that does not look at the backoff deadline
StartIsNoopIgnoringBackoff(inst) ==
    inst.state \in {Running, Starting}

\* The state check of start_job (manager.rs 143-159): TRUE when the call
\* returns Ok(()) without starting anything
StartIsNoop(inst) ==
    \/ inst.state \in {Running, Starting}
    \/ /\ inst.state = Backoff
       /\ IsSome(inst.backoff_until)
       /\ Unwrap(inst.backoff_until) > 0

\* JobManager::start_job up to the release of the lock (manager.rs 134-167)
StartJobEnter(l) ==
    /\ pendingStart[l] > 0
    /\ pendingStart' = [pendingStart EXCEPT ![l] = @ - 1]
    /\ IF ~Loaded(l) \/ (Loaded(l) /\ StartIsNoop(jobs[l]))
       THEN UNCHANGED <<jobs, startSpawn>>
       ELSE /\ jobs' = [jobs EXCEPT ![l].state = Starting,
                                    ![l].backoff_until = None]
            /\ startSpawn' = [startSpawn EXCEPT ![l] = @ + 1]
    /\ UNCHANGED <<children, startOk, startErr, stops, restartQ, handler,
                   bus, sent, ncalls>>
    /\ call' = IF ~Loaded(l)
               THEN Returned("start_job", l, "JobNotFound", "lookup")
               ELSE IF StartIsNoop(jobs[l])
                    THEN Returned("start_job", l, "Ok", "check")
                    ELSE NoCall
    /\ UNCHANGED <<rxOpen, supervisor, restartPath>>

\* The child and its monitor task as ProcessSpawner::spawn creates them
\* (spawner.rs 52-77); the monitor keeps a clone of the config
NewChild(l, cfg) ==
    [label |-> l, config |-> cfg, alive |-> TRUE, sigterm |-> FALSE,
     sigkill |-> FALSE, mon |-> "waiting"]

\* ProcessSpawner::spawn succeeds (spawner.rs 20-78, manager.rs 170-171)
SpawnOk(l) ==
    /\ startSpawn[l] > 0
    /\ startSpawn' = [startSpawn EXCEPT ![l] = @ - 1]
    /\ children' = Append(children, NewChild(l, jobs[l].config))
    /\ startOk' = startOk \cup {Len(children) + 1}
    /\ UNCHANGED <<jobs, pendingStart, startErr, stops, restartQ, handler,
                   bus, sent, ncalls>>
    /\ call' = NoCall
    /\ UNCHANGED <<rxOpen, supervisor, restartPath>>

\* ProcessSpawner::spawn fails: the OS refuses the child (spawner.rs 52-59)
SpawnFail(l) ==
    /\ startSpawn[l] > 0
    /\ startSpawn' = [startSpawn EXCEPT ![l] = @ - 1]
    /\ startErr' = [startErr EXCEPT ![l] = @ + 1]
    /\ UNCHANGED <<jobs, children, pendingStart, startOk, stops, restartQ,
                   handler, bus, sent, ncalls>>
    /\ call' = NoCall
    /\ UNCHANGED <<rxOpen, supervisor, restartPath>>

\* The instance as start_job leaves it after a successful spawn (manager.rs 176-180)
StartedInstance(inst, p) ==
    [inst EXCEPT !.state = Running, !.pid = Some(p), !.start_time = Some(0),
                 !.process_handle = Some(p), !.restart_count = 0]

\* start_job after a successful spawn: lock again, finalize, JobStarted
\* (manager.rs 171-190)
StartFinalizeOk(p) ==
    /\ p \in startOk
    /\ startOk' = startOk \ {p}
    /\ LET l == children[p].label IN
         /\ jobs' = [jobs EXCEPT ![l] = StartedInstance(@, p)]
         /\ Publish(<< <<"JobStarted", l, p>> >>)
    /\ UNCHANGED <<children, pendingStart, startSpawn, startErr, stops,
                   restartQ, handler, ncalls>>
    /\ call' = Returned("start_job", children[p].label, Sent("Ok"), "end")
    /\ UNCHANGED <<rxOpen, supervisor, restartPath>>

\* start_job after a failed spawn (manager.rs 191-200)
StartFinalizeErr(l) ==
    /\ startErr[l] > 0
    /\ startErr' = [startErr EXCEPT ![l] = @ - 1]
    /\ jobs' = [jobs EXCEPT ![l].state = FailedToStart]
    /\ UNCHANGED <<children, pendingStart, startSpawn, startOk, stops,
                   restartQ, handler, bus, sent, ncalls>>
    /\ call' = Returned("start_job", l, "SpawnError", "end")
    /\ UNCHANGED <<rxOpen, supervisor, restartPath>>

----------------------------------------------------------------------------
(* The child and its monitor task *)

\* How a child can end: <<exit code, signal>> as monitor_process reads them
\* (spawner.rs 92-93): a code and no signal, or no code (-1) and the signal
\* that ended it: one that stop_job sent, else one of its own (a crash)
ExitOutcomes(c) ==
    {<<0, None>>, <<1, None>>,
     <<-1, Some(IF c.sigkill THEN 9 ELSE IF c.sigterm THEN 15 ELSE 11)>>}

\* a restart decision that does not look at keep_alive
RestartNeededByPolicy(cfg, code, sig) ==
    CASE cfg.restart_policy = "Always" -> TRUE
      [] cfg.restart_policy = "Never" -> FALSE
      [] cfg.restart_policy = "OnFailure" -> code # 0
      [] cfg.restart_policy = "OnCrash" -> IsSome(sig)

\* The restart decision of the monitor (spawner.rs 98-107)
RestartNeeded(cfg, code, sig) ==
    IF cfg.keep_alive
    THEN CASE cfg.restart_policy = "Always" -> TRUE
           [] cfg.restart_policy = "Never" -> FALSE
           [] cfg.restart_policy = "OnFailure" -> code # 0
           [] cfg.restart_policy = "OnCrash" -> IsSome(sig)
    ELSE FALSE

\* JobExited as the monitor publishes it (spawner.rs 110-115).  The last
\* three fields are not in the program's event: the child, who published it
\* and the monitor's restart decision.
MonitorExited(l, code, sig, p, rn) ==
    <<"JobExited", l, code, sig, 0, p, "monitor", rn>>

\* What monitor_process publishes (spawner.rs 110-122)
MonitorEvents(l, code, sig, p, rn) ==
    << MonitorExited(l, code, sig, p, rn) >>
        \o (IF rn THEN << <<"JobReadyForRestart", l>> >> ELSE <<>>)

\* The child p ends and monitor_process, woken from child.wait(), publishes
\* JobExited and, if a restart is warranted, JobReadyForRestart; then the
\* monitor task ends (spawner.rs 90-123)
ChildExit(p, out) ==
    /\ p \in Pids
    /\ children[p].alive
    /\ out \in ExitOutcomes(children[p])
    /\ LET c == children[p]
           rn == RestartNeeded(c.config, out[1], out[2]) IN
         /\ children' = [children EXCEPT ![p].alive = FALSE, ![p].mon = "done"]
         /\ Publish(MonitorEvents(c.label, out[1], out[2], p, rn))
    /\ UNCHANGED <<jobs, pendingStart, startSpawn, startOk, startErr, stops,
                   restartQ, handler, ncalls>>
    /\ call' = NoCall
    /\ UNCHANGED <<rxOpen, supervisor, restartPath>>

----------------------------------------------------------------------------
(* stop_job and restart_job *)

\* SIGTERM / SIGKILL sent to a pid (manager.rs 225-228, 241-244): it reaches
\* the child only while the child is alive
Signal(cs, pidOpt, field) ==
    IF IsSome(pidOpt) /\ cs[Unwrap(pidOpt)].alive
    THEN [cs EXCEPT ![Unwrap(pidOpt)][field] = TRUE]
    ELSE cs

\* a stop_job that reads the state after it has replaced it
StopTaskLate(id, l, inst, rs) ==
    [id |-> id, label |-> l, prev |-> Stopping, pid |-> inst.pid,
     handle |-> inst.process_handle, restart |-> rs,
     pc |-> IF IsSome(inst.pid) /\ IsSome(inst.process_handle)
            THEN "wait" ELSE "fin"]

\* The call of stop_job that is in flight after its first critical section
\* (manager.rs 215-221): what it remembers, and where it continues
StopTask(id, l, inst, rs) ==
    [id |-> id, label |-> l, prev |-> inst.state, pid |-> inst.pid,
     handle |-> inst.process_handle, restart |-> rs,
     pc |-> IF IsSome(inst.pid) /\ IsSome(inst.process_handle)
            THEN "wait" ELSE "fin"]

\* JobManager::stop_job up to the wait for the monitor (manager.rs 206-233);
\* rs tells that restart_job made the call (manager.rs 269-273)
StopJobEnter(l, rs) ==
    /\ ncalls < MaxCalls
    /\ ncalls' = ncalls + 1
    /\ IF ~Loaded(l)
       THEN UNCHANGED <<jobs, stops, children>>
       ELSE /\ jobs' = [jobs EXCEPT ![l].state = Stopping,
                                    ![l].process_handle = None]
            /\ stops' = stops \cup {StopTask(ncalls + 1, l, jobs[l], rs)}
            /\ children' = Signal(children, jobs[l].pid, "sigterm")
    /\ UNCHANGED <<pendingStart, startSpawn, startOk, startErr, restartQ,
                   handler, bus, sent>>
    /\ call' = IF ~Loaded(l)
               THEN Returned("stop_job", l, "JobNotFound", "lookup")
               ELSE NoCall
    /\ UNCHANGED <<rxOpen, supervisor, restartPath>>

\* select!: the monitor task has ended (manager.rs 235-237)
StopWaitDone(t) ==
    /\ t \in stops
    /\ t.pc = "wait"
    /\ children[Unwrap(t.handle)].mon = "done"
    /\ stops' = (stops \ {t}) \cup {[t EXCEPT !.pc = "fin"]}
    /\ UNCHANGED <<jobs, children, pendingStart, startSpawn, startOk, startErr,
                   restartQ, handler, bus, sent, ncalls>>
    /\ call' = NoCall
    /\ UNCHANGED <<rxOpen, supervisor, restartPath>>

\* select!: the 10 seconds have passed first, SIGKILL (manager.rs 238-245)
StopTimeout(t) ==
    /\ t \in stops
    /\ t.pc = "wait"
    /\ children[Unwrap(t.handle)].mon # "done"
    /\ children' = Signal(children, t.pid, "sigkill")
    /\ stops' = (stops \ {t}) \cup {[t EXCEPT !.pc = "fin"]}
    /\ UNCHANGED <<jobs, pendingStart, startSpawn, startOk, startErr,
                   restartQ, handler, bus, sent, ncalls>>
    /\ call' = NoCall
    /\ UNCHANGED <<rxOpen, supervisor, restartPath>>

\* The instance as stop_job leaves it (manager.rs 254-257)
StoppedInstance(inst) ==
    [inst EXCEPT !.state = Stopped, !.pid = None, !.start_time = None,
                 !.process_handle = None]

\* stop_job: lock again, finalize, JobStopped (manager.rs 250-265); a
\* restart_job goes on to start_job after its pause (manager.rs 271-272)
StopFinalize(t) ==
    /\ t \in stops
    /\ t.pc = "fin"
    /\ stops' = stops \ {t}
    /\ jobs' = [jobs EXCEPT ![t.label] = StoppedInstance(@)]
    /\ Publish(<< <<"JobStopped", t.label, t.prev>> >>)
    /\ pendingStart' = [pendingStart EXCEPT
                          ![t.label] = IF t.restart /\ rxOpen THEN @ + 1 ELSE @]
    /\ UNCHANGED <<children, startSpawn, startOk, startErr, restartQ, handler, ncalls>>
    /\ call' = ReturnedWith("stop_job", t.label, Sent("Ok"),
                            IF rxOpen
                            THEN << <<"JobStopped", t.label, t.prev>> >>
                            ELSE <<>>)
    /\ UNCHANGED <<rxOpen, supervisor, restartPath>>

----------------------------------------------------------------------------
(* handle_process_exit *)

RECURSIVE Pow2(_)
Pow2(n) == IF n = 0 THEN 1 ELSE 2 * Pow2(n - 1)

Min(a, b) == IF a < b THEN a ELSE b

\* the cap of the exponent in calculate_backoff_duration
BackoffExponentCap == 5

\* JobManager::calculate_backoff_duration (manager.rs 385-390), in seconds
calculate_backoff_duration(inst) ==
    inst.config.restart_delay_sec
        * Pow2(Min(inst.restart_count, BackoffExponentCap))

\* a restart limit that allows one restart more
RestartLimitReachedLate(inst) ==
    /\ inst.config.max_restarts > 0
    /\ inst.restart_count > inst.config.max_restarts

\* the restart limit of handle_process_exit (manager.rs 342-343)
RestartLimitReached(inst) ==
    /\ inst.config.max_restarts > 0
    /\ inst.restart_count >= inst.config.max_restarts

\* a handle_process_exit that counts every exit as a restart
handle_process_exit_counting(inst, l, code, sig, rn, p) ==
    LET cnt == [inst EXCEPT !.last_exit_code = Some(code),
                            !.last_exit_signal = sig,
                            !.pid = None, !.process_handle = None,
                            !.restart_count = @ + 1]
        d == calculate_backoff_duration(cnt)
        failed == FailedMaxRestarts(cnt.config.max_restarts)
    IN
      IF rn
      THEN IF RestartLimitReached(cnt)
           THEN [inst |-> [cnt EXCEPT !.state = failed],
                 req |-> <<>>,
                 ev |-> << <<"JobFailed", l, failed>> >>]
           ELSE [inst |-> [cnt EXCEPT !.backoff_until = Some(d),
                                      !.state = Backoff],
                 req |-> << [label |-> l, delay |-> d] >>,
                 ev |-> << <<"JobRestartScheduled", l, d, cnt.restart_count>> >>]
      ELSE [inst |-> [cnt EXCEPT !.state = Stopped],
            req |-> <<>>,
            ev |-> << <<"JobExited", l, code, sig, cnt.restart_count, p,
                        "manager", FALSE>> >>]

\* JobManager::handle_process_exit (manager.rs 330-381) on the instance inst,
\* for the exit of child p: the instance it leaves, the restart requests it
\* enqueues and the events it publishes
handle_process_exit(inst, l, code, sig, rn, p) ==
    LET rec == [inst EXCEPT !.last_exit_code = Some(code),
                            !.last_exit_signal = sig,
                            !.pid = None, !.process_handle = None]
        cnt == [rec EXCEPT !.restart_count = @ + 1]
        d == calculate_backoff_duration(cnt)
        failed == FailedMaxRestarts(cnt.config.max_restarts)
    IN
      IF rn
      THEN IF RestartLimitReached(cnt)
           THEN [inst |-> [cnt EXCEPT !.state = failed],
                 req |-> <<>>,
                 ev |-> << <<"JobFailed", l, failed>> >>]
           ELSE [inst |-> [cnt EXCEPT !.backoff_until = Some(d),
                                      !.state = Backoff],
                 req |-> << [label |-> l, delay |-> d] >>,
                 ev |-> << <<"JobRestartScheduled", l, d, cnt.restart_count>> >>]
      ELSE [inst |-> [rec EXCEPT !.state = Stopped],
            req |-> <<>>,
            ev |-> << <<"JobExited", l, code, sig, rec.restart_count, p,
                        "manager", FALSE>> >>]

\* The receiver of the event channel takes the next event
\* (dispatcher.rs 29-32).  For the JobExited of a monitor, handle_process_exit
\* (manager.rs 316-382) is called with what the monitor reported and runs
\* under the write lock from its lookup to its return; any other event is
\* only logged.  (process_events itself only logs: handle_process_exit is a
\* public method without a caller in the repository, the model calls it where
\* the exit notification is received.)
ReceiveEvent ==
    /\ rxOpen
    /\ bus # <<>>
    /\ LET e == Head(bus) IN
         IF IsMonitorExit(e) /\ Loaded(e[2])
         THEN LET r == handle_process_exit(jobs[e[2]], e[2], e[3], e[4], e[8],
                                           e[6]) IN
                /\ jobs' = [jobs EXCEPT ![e[2]] = r.inst]
                /\ restartQ' = restartQ \o r.req
                /\ bus' = Send(Tail(bus), r.ev)
                /\ sent' = sent \cup {Ident(r.ev[i]) : i \in 1..Len(r.ev)}
         ELSE /\ bus' = Tail(bus)
              /\ UNCHANGED <<jobs, restartQ, sent>>
    /\ UNCHANGED <<children, pendingStart, startSpawn, startOk, startErr,
                   stops, handler, ncalls>>
    /\ call' = LET e == Head(bus) IN
               IF ~IsMonitorExit(e) THEN NoCall
               ELSE IF ~Loaded(e[2])
               THEN Returned("handle_process_exit", e[2], "JobNotFound", "lookup")
               ELSE ReturnedWith("handle_process_exit", e[2], "Ok",
                                 handle_process_exit(jobs[e[2]], e[2], e[3],
                                                     e[4], e[8], e[6]).ev)
    /\ UNCHANGED <<rxOpen, supervisor, restartPath>>

----------------------------------------------------------------------------
(* The background task of start_background_tasks *)

\* restart_rx.recv() and the start of the sleep (manager.rs 72, 410)
HandlerRecv ==
    /\ handler.pc = "idle"
    /\ restartQ # <<>>
    /\ handler' = [pc |-> "sleep", label |-> Head(restartQ).label,
                   wake |-> Head(restartQ).delay]
    /\ restartQ' = Tail(restartQ)
    /\ UNCHANGED <<jobs, children, pendingStart, startSpawn, startOk, startErr,
                   stops, bus, sent, ncalls>>
    /\ call' = NoCall
    /\ UNCHANGED <<rxOpen, supervisor, restartPath>>

\* a wake-up that does not look at the state
WakeAppliesAlways(inst) == TRUE

\* the state check of handle_restart_request (manager.rs 416)
WakeApplies(inst) == inst.state \in {Backoff, Restarting}

\* handle_restart_request after the sleep: the state check under the lock
\* and JobReadyForRestart (manager.rs 412-425)
HandlerWake ==
    /\ handler.pc = "sleep"
    /\ handler.wake = 0
    /\ handler' = [pc |-> "idle", label |-> "", wake |-> 0]
    /\ IF Loaded(handler.label) /\ WakeApplies(jobs[handler.label])
       THEN /\ jobs' = [jobs EXCEPT ![handler.label].state = Stopped]
            /\ Publish(<< <<"JobReadyForRestart", handler.label>> >>)
       ELSE UNCHANGED <<jobs, bus, sent>>
    /\ UNCHANGED <<children, pendingStart, startSpawn, startOk, startErr,
                   stops, restartQ, ncalls>>
    /\ call' = ReturnedWith("handle_restart_request", handler.label, "Ok",
                            IF /\ Loaded(handler.label)
                               /\ WakeApplies(jobs[handler.label])
                               /\ rxOpen
                            THEN << <<"JobReadyForRestart", handler.label>> >>
                            ELSE <<>>)
    /\ UNCHANGED <<rxOpen, supervisor, restartPath>>

\* the waits that are running: the backoff of a job and the handler's sleep
Timers ==
    {Unwrap(jobs[l].backoff_until) :
        l \in {x \in DOMAIN jobs : jobs[x].state = Backoff
                                     /\ IsSome(jobs[x].backoff_until)}}
      \cup (IF handler.pc = "sleep" THEN {handler.wake} ELSE {})

Elapse(left, d) == IF left > d THEN left - d ELSE 0

\* Time passes: d seconds, up to the end of one of the running waits
Tick(d) ==
    /\ d \in Timers
    /\ d > 0
    /\ jobs' = [l \in DOMAIN jobs |->
                  IF IsSome(jobs[l].backoff_until)
                  THEN [jobs[l] EXCEPT !.backoff_until = Some(Elapse(@[1], d))]
                  ELSE jobs[l]]
    /\ handler' = [handler EXCEPT !.wake = Elapse(@, d)]
    /\ UNCHANGED <<children, pendingStart, startSpawn, startOk, startErr,
                   stops, restartQ, bus, sent, ncalls>>
    /\ call' = NoCall
    /\ UNCHANGED <<rxOpen, supervisor, restartPath>>

----------------------------------------------------------------------------
Next ==
    \/ \E l \in Labels, cfg \in ConfigSet : LoadJob(l, cfg)
    \/ \E l \in Labels : CallStartJob(l)
    \/ \E l \in Labels : StartJobEnter(l)
    \/ \E l \in Labels : SpawnOk(l)
    \/ \E l \in Labels : SpawnFail(l)
    \/ \E p \in startOk : StartFinalizeOk(p)
    \/ \E l \in Labels : StartFinalizeErr(l)
    \/ \E p \in Pids : \E out \in ExitOutcomes(children[p]) : ChildExit(p, out)
    \/ \E l \in Labels, rs \in BOOLEAN : StopJobEnter(l, rs)
    \/ \E t \in stops : StopWaitDone(t)
    \/ \E t \in stops : StopTimeout(t)
    \/ \E t \in stops : StopFinalize(t)
    \/ ReceiveEvent
    \/ HandlerRecv
    \/ HandlerWake
    \/ \E d \in Timers : Tick(d)

Spec == Init /\ [][Next]_vars

----------------------------------------------------------------------------
(* C1: one live child per label *)

LiveChildren(l) == {p \in Pids : children[p].label = l /\ children[p].alive}

\* C1: under every interleaving of load_job, start_job, stop_job, restart_job,
\* child exits and restart wake-ups, at most one live child belongs to a label
C1_AtMostOneLiveChild ==
    \A l \in Labels : Cardinality(LiveChildren(l)) <= 1

----------------------------------------------------------------------------
(* C2: N concurrent start_job calls on a stopped job *)

\* The job is loaded and Stopped, and N >= 2 calls of start_job have been
\* issued together; nothing else is called
InitC2 ==
    /\ \E cfg \in ConfigSet : jobs = Insert(<<>>, "a", NewInstance(cfg))
    /\ \E n \in 2..MaxStarts : pendingStart = [l \in Labels |-> n]
    /\ children = <<>>
    /\ startSpawn = [l \in Labels |-> 0]
    /\ startOk = {}
    /\ startErr = [l \in Labels |-> 0]
    /\ stops = {}
    /\ restartQ = <<>>
    /\ handler = [pc |-> "idle", label |-> "", wake |-> 0]
    /\ bus = <<>>
    /\ sent = {}
    /\ ncalls = 0
    /\ call = NoCall
    /\ rxOpen = TRUE
    /\ supervisor = NewSupervisor
    /\ restartPath = NewRestartPath

\* The calls run to their ends, the child may end meanwhile; the exit
\* notification is only logged (dispatcher.rs 40-47)
NextC2 ==
    \/ \E l \in Labels : StartJobEnter(l)
    \/ \E l \in Labels : SpawnOk(l)
    \/ \E l \in Labels : SpawnFail(l)
    \/ \E p \in startOk : StartFinalizeOk(p)
    \/ \E l \in Labels : StartFinalizeErr(l)
    \/ \E p \in Pids : \E out \in ExitOutcomes(children[p]) : ChildExit(p, out)

SpecC2 == InitC2 /\ [][NextC2]_vars

\* start_job calls of label l that are past the state check and have not returned
MidStart(l) ==
    startSpawn[l] + startErr[l]
        + Cardinality({p \in startOk : children[p].label = l})

AllStartsReturned(l) == pendingStart[l] = 0 /\ MidStart(l) = 0

\* C2: of N >= 2 concurrent start_job calls on a Stopped job, at most one is
\* ever past the state check, it has put the job in Starting, no second child
\* is spawned, and when all calls have returned and the job is not left
\* Failed by a refused spawn, exactly one child has been spawned
C2_ExactlyOneSpawn ==
    \A l \in DOMAIN jobs :
        /\ MidStart(l) <= 1
        /\ startSpawn[l] > 0 => jobs[l].state = Starting
        /\ Cardinality({p \in Pids : children[p].label = l}) <= 1
        /\ (AllStartsReturned(l) /\ ~IsFailed(jobs[l].state))
              => Cardinality({p \in Pids : children[p].label = l}) = 1

\* one call is mid-spawn, every other call has met Starting and returned
C2_Witness ==
    /\ Loaded("a")
    /\ startSpawn["a"] = 1
    /\ pendingStart["a"] = 0
    /\ jobs["a"].state = Starting
    /\ children = <<>>

----------------------------------------------------------------------------
(* C3, C4, C5, C6: invariants of the instance *)

\* C3: whenever the registry lock is free, pid is present exactly when the
\* state is Running or Stopping
C3_PidIffRunningOrStopping ==
    \A l \in DOMAIN jobs :
        IsSome(jobs[l].pid) <=> jobs[l].state \in {Running, Stopping}

\* C4: whenever the registry lock is free, backoff_until is present exactly
\* when the state is Backoff
C4_BackoffUntilIffBackoff ==
    \A l \in DOMAIN jobs :
        IsSome(jobs[l].backoff_until) <=> jobs[l].state = Backoff

\* C5: whenever the registry lock is free, an instance that holds a monitor
\* handle is Starting, Running or Stopping
C5_HandleOnlyWhileActive ==
    \A l \in DOMAIN jobs :
        IsSome(jobs[l].process_handle)
            => jobs[l].state \in {Starting, Running, Stopping}

\* C6: with max_restarts > 0, restart_count never exceeds max_restarts, and
\* when it equals max_restarts the state is Failed
C6_RestartCountWithinLimit ==
    \A l \in DOMAIN jobs :
        jobs[l].config.max_restarts > 0
            => /\ jobs[l].restart_count <= jobs[l].config.max_restarts
               /\ jobs[l].restart_count = jobs[l].config.max_restarts
                     => IsFailed(jobs[l].state)
----------------------------------------------------------------------------
(* C7: a job that fails on every run *)

\* the job of the scenario: restarted on failure, at most 3 times
FailingJob == Supervision(TRUE, "OnFailure", 1, 3)

\* the job has been loaded and load_job has issued its auto-start
InitC7 ==
    /\ jobs = Insert(<<>>, "a", NewInstance(FailingJob))
    /\ pendingStart = [l \in Labels |-> 1]
    /\ children = <<>>
    /\ startSpawn = [l \in Labels |-> 0]
    /\ startOk = {}
    /\ startErr = [l \in Labels |-> 0]
    /\ stops = {}
    /\ restartQ = <<>>
    /\ handler = [pc |-> "idle", label |-> "", wake |-> 0]
    /\ bus = <<>>
    /\ sent = {<<"JobLoaded", "a">>}
    /\ ncalls = 0
    /\ call = NoCall
    /\ rxOpen = TRUE
    /\ supervisor = NewSupervisor
    /\ restartPath = NewRestartPath

\* the child ends in failure: a non-zero code, or a signal of its own
ChildFails(p) ==
    \E out \in ExitOutcomes(children[p]) : out[1] # 0 /\ ChildExit(p, out)

\* the receiver hands the next exit notification to handle_process_exit
ReceiveExit ==
    /\ bus # <<>>
    /\ IsMonitorExit(Head(bus))
    /\ ReceiveEvent

\* the receiver answers the next JobReadyForRestart by calling start_job,
\* as long as the job may be given another child
AnswerReady ==
    /\ bus # <<>>
    /\ Head(bus)[1] = "JobReadyForRestart"
    /\ Len(children) < MaxRuns
    /\ bus' = Tail(bus)
    /\ pendingStart' = [pendingStart EXCEPT ![Head(bus)[2]] = @ + 1]
    /\ UNCHANGED <<jobs, children, startSpawn, startOk, startErr, stops,
                   restartQ, handler, sent, ncalls>>
    /\ call' = NoCall
    /\ UNCHANGED <<rxOpen, supervisor, restartPath>>

NextC7 ==
    \/ \E l \in Labels : StartJobEnter(l)
    \/ \E l \in Labels : SpawnOk(l)
    \/ \E p \in startOk : StartFinalizeOk(p)
    \/ \E p \in Pids : ChildFails(p)
    \/ ReceiveExit
    \/ AnswerReady
    \/ HandlerRecv
    \/ HandlerWake
    \/ \E d \in Timers : Tick(d)

SpecC7 == InitC7 /\ [][NextC7]_vars

\* the children whose failure handle_process_exit has been given
HandledFailures ==
    {p \in Pids : /\ ~children[p].alive
                  /\ \A i \in 1..Len(bus) :
                        ~(IsMonitorExit(bus[i]) /\ bus[i][6] = p)}

\* C7: once the job's N-th failure (N = max_restarts = 3) has been handled,
\* the job is Failed("Exceeded max restarts (3)") and JobFailed has been
\* emitted
C7_FailedAfterNthFailure ==
    \A l \in DOMAIN jobs :
        Cardinality({p \in HandledFailures : children[p].label = l})
              >= jobs[l].config.max_restarts
           => /\ jobs[l].state = FailedMaxRestarts(jobs[l].config.max_restarts)
              /\ <<"JobFailed", l>> \in sent

----------------------------------------------------------------------------
(* C8, C9: the order of the events of a label *)

\* C8: JobStarted of a child is on the bus before JobExited of that child:
\* whenever the monitor's JobExited has been sent, JobStarted has been sent
C8_StartedBeforeExited ==
    \A p \in Pids :
        <<"JobExited", children[p].label, p, "monitor">> \in sent
            => <<"JobStarted", children[p].label, p>> \in sent

\* C9: JobLoaded of a label is on the bus before any JobStarted of that
\* label: whenever a JobStarted has been sent, JobLoaded has been sent
C9_LoadedBeforeStarted ==
    \A p \in Pids :
        <<"JobStarted", children[p].label, p>> \in sent
            => <<"JobLoaded", children[p].label>> \in sent

\* load_job has auto-started a keep_alive job without any call of start_job
\* from outside, and the JobStarted of its child has been sent
C9_Witness ==
    /\ Loaded("a")
    /\ jobs["a"].config.keep_alive
    /\ ncalls = 1
    /\ \E p \in Pids : <<"JobStarted", "a", p>> \in sent

----------------------------------------------------------------------------
(* C10: the delay of a scheduled restart *)

\* the longest backoff the specification allows, in seconds
MaxBackoffSecs == 300

\* C10: every restart request, every backoff deadline and every sleep of the
\* restart handler is at most 300 seconds away when it is set
C10_DelayAtMost300 ==
    /\ \A i \in 1..Len(restartQ) : restartQ[i].delay <= MaxBackoffSecs
    /\ \A l \in DOMAIN jobs :
          IsSome(jobs[l].backoff_until)
              => Unwrap(jobs[l].backoff_until) <= MaxBackoffSecs
    /\ handler.wake <= MaxBackoffSecs
----------------------------------------------------------------------------
(* The pure functions of the supervisor and of the manager, evaluated on    *)
(* inputs drawn from bounded sets                                           *)

\* the largest restart_count the functions are evaluated on
MaxCount == 8

\* restart_delay_sec values within the validator's 0..3600
DelaySet == {0, 1, 2, 3, 4, 5, 10, 75, 150, 200, 300, 301, 3600}

Policies == {"Never", "Always", "OnFailure", "OnCrash"}

\* the supervision configs the functions are evaluated on
FnConfigs ==
    {Supervision(ka, pol, d, maxr) :
        ka \in BOOLEAN, pol \in Policies, d \in {1}, maxr \in {0, 1, 3}}

\* the cap of the exponent in JobSupervisor::calculate_backoff
SupervisorExponentCap == 6

\* a calculate_backoff whose exponent stops growing one attempt early
calculate_backoff_short(config, restart_count) ==
    Min(config.restart_delay_sec
            * Pow2(Min(restart_count, SupervisorExponentCap - 1)),
        MaxBackoffSecs)

\* JobSupervisor::calculate_backoff (supervisor.rs 52-63), in seconds
calculate_backoff(config, restart_count) ==
    LET base_secs == config.restart_delay_sec
        exponent == Min(restart_count, SupervisorExponentCap)
        multiplier == Pow2(exponent)
        backoff_secs == base_secs * multiplier
    IN Min(backoff_secs, MaxBackoffSecs)

\* a should_restart that stops one restart late
should_restart_late(config, exit_code, signal, restart_count) ==
    IF ~config.keep_alive THEN FALSE
    ELSE IF config.max_restarts > 0 /\ restart_count > config.max_restarts
    THEN FALSE
    ELSE CASE config.restart_policy = "Always" -> TRUE
           [] config.restart_policy = "Never" -> FALSE
           [] config.restart_policy = "OnFailure" -> exit_code # 0
           [] config.restart_policy = "OnCrash" -> IsSome(signal)

\* JobSupervisor::should_restart (supervisor.rs 25-49)
should_restart(config, exit_code, signal, restart_count) ==
    IF ~config.keep_alive THEN FALSE
    ELSE IF config.max_restarts > 0 /\ restart_count >= config.max_restarts
    THEN FALSE
    ELSE CASE config.restart_policy = "Always" -> TRUE
           [] config.restart_policy = "Never" -> FALSE
           [] config.restart_policy = "OnFailure" -> exit_code # 0
           [] config.restart_policy = "OnCrash" -> IsSome(signal)

\* calculate_backoff is evaluated on (d, n)
EvalBackoff(d, n) ==
    /\ call' = [fn |-> "calculate_backoff", delay_sec |-> d, count |-> n,
                result |-> calculate_backoff(Supervision(TRUE, "Always", d, 0), n)]
    /\ UNCHANGED <<jobs, children, pendingStart, startSpawn, startOk, startErr,
                   stops, restartQ, handler, bus, sent, ncalls>>
    /\ UNCHANGED <<rxOpen, supervisor, restartPath>>

\* should_restart is evaluated on (cfg, code, sig, n)
EvalShouldRestart(cfg, code, sig, n) ==
    /\ call' = [fn |-> "should_restart", config |-> cfg, exit_code |-> code,
                signal |-> sig, count |-> n,
                result |-> should_restart(cfg, code, sig, n)]
    /\ UNCHANGED <<jobs, children, pendingStart, startSpawn, startOk, startErr,
                   stops, restartQ, handler, bus, sent, ncalls>>
    /\ UNCHANGED <<rxOpen, supervisor, restartPath>>

\* handle_process_exit schedules a restart for a running job whose
\* restart_delay_sec is d and whose restart_count is n (0 after a clean start)
EvalSchedule(d, n) ==
    LET inst == [StartedInstance(NewInstance(Supervision(TRUE, "Always", d, 0)), 1)
                    EXCEPT !.restart_count = n]
        r == handle_process_exit(inst, "a", 1, None, TRUE, 1)
    IN
    /\ call' = [fn |-> "handle_process_exit", delay_sec |-> d, count |-> n,
                config |-> inst.config,
                counted |-> r.inst.restart_count,
                request_delay |-> r.req[1].delay,
                event_delay |-> r.ev[1][3],
                event_attempt |-> r.ev[1][4]]
    /\ UNCHANGED <<jobs, children, pendingStart, startSpawn, startOk, startErr,
                   stops, restartQ, handler, bus, sent, ncalls>>
    /\ UNCHANGED <<rxOpen, supervisor, restartPath>>

NextFn ==
    \/ \E d \in DelaySet, n \in 0..MaxCount : EvalBackoff(d, n)
    \/ \E cfg \in FnConfigs, code \in {0, 1, -1}, sig \in {None, Some(9)},
          n \in 0..MaxCount : EvalShouldRestart(cfg, code, sig, n)
    \/ \E d \in DelaySet, n \in 0..MaxCount : EvalSchedule(d, n)

SpecFn == Init /\ [][NextFn]_vars

----------------------------------------------------------------------------
(* C11, C12, C13 *)

\* C11: the delay the manager schedules a restart with is the backoff
\* function of restart_delay_sec and the attempt: the first restart after a
\* clean start has delay = restart_delay_sec and attempt 1, and for every
\* count the manager's delay is calculate_backoff of the same config and count
C11_ManagerDelayIsBackoff ==
    call.fn = "handle_process_exit" =>
        /\ call.request_delay = call.event_delay
        /\ call.count = 0 =>
              call.request_delay = call.delay_sec /\ call.event_attempt = 1
        /\ call.request_delay = calculate_backoff(call.config, call.counted)

\* d doubled k times
RECURSIVE Doubled(_, _)
Doubled(d, k) == IF k = 0 THEN d ELSE Doubled(d + d, k - 1)

\* C12 as stated: calculate_backoff returns min(d * 2^min(n, 6), 300); it
\* equals d at n = 0, doubles with each attempt, equals min(64 * d, 300) for
\* n >= 6 and is non-decreasing in n
C12_BackoffAsStated ==
    call.fn = "calculate_backoff" =>
        LET cfg == Supervision(TRUE, "Always", call.delay_sec, 0) IN
        /\ call.result = Min(Doubled(call.delay_sec, Min(call.count, 6)), 300)
        /\ call.count = 0 => call.result = call.delay_sec
        /\ (call.count > 0 /\ call.count <= 6)
              => call.result = 2 * calculate_backoff(cfg, call.count - 1)
        /\ call.count >= 6 => call.result = Min(64 * call.delay_sec, 300)
        /\ call.result <= calculate_backoff(cfg, call.count + 1)

\* C12 amended: calculate_backoff returns min(d * 2^min(n, 6), 300); it
\* equals min(d, 300) at n = 0, doubles with each attempt up to the 6th as
\* long as the doubled value is within 300 and is 300 otherwise, equals
\* min(64 * d, 300) for n >= 6 and is non-decreasing in n
C12_BackoffCapped ==
    call.fn = "calculate_backoff" =>
        LET cfg == Supervision(TRUE, "Always", call.delay_sec, 0)
            prev == calculate_backoff(cfg, call.count - 1) IN
        /\ call.result = Min(Doubled(call.delay_sec, Min(call.count, 6)), 300)
        /\ call.count = 0 => call.result = Min(call.delay_sec, 300)
        /\ (call.count > 0 /\ call.count <= 6)
              => call.result = (IF 2 * prev <= 300 THEN 2 * prev ELSE 300)
        /\ call.count >= 6 => call.result = Min(64 * call.delay_sec, 300)
        /\ call.result <= calculate_backoff(cfg, call.count + 1)

\* the function has been evaluated past the exponent cap, below the 300 s cap
C12_Witness ==
    /\ call.fn = "calculate_backoff"
    /\ call.count > 6
    /\ call.delay_sec = 3
    /\ call.result = 192

\* C13: should_restart is false if keep_alive is false; otherwise false if
\* max_restarts > 0 and restart_count >= max_restarts; otherwise never ->
\* false, always -> true, on-failure -> exit_code # 0, on-crash -> a signal
\* is present; with max_restarts = 0 the count never makes it false
C13_ShouldRestartTable ==
    call.fn = "should_restart" =>
        LET c == call.config
            limited == c.max_restarts > 0 /\ call.count >= c.max_restarts
            policy == \/ c.restart_policy = "Always"
                      \/ c.restart_policy = "OnFailure" /\ call.exit_code # 0
                      \/ c.restart_policy = "OnCrash" /\ call.signal # None
        IN
        /\ ~c.keep_alive => ~call.result
        /\ (c.keep_alive /\ limited) => ~call.result
        /\ (c.keep_alive /\ ~limited) => (call.result <=> policy)
        /\ (c.keep_alive /\ c.max_restarts = 0) => (call.result <=> policy)

\* the limit is what refuses the restart: the policy alone would grant it
C13_Witness ==
    /\ call.fn = "should_restart"
    /\ call.config.keep_alive
    /\ call.config.restart_policy = "Always"
    /\ call.config.max_restarts = 3
    /\ call.count = 3
    /\ ~call.result
----------------------------------------------------------------------------
(* C14: load_job of a label that is already loaded *)

\* C14: load_job with a label that is already in the registry fails with
\* JobExists, leaves the existing instance unchanged, emits no event and
\* schedules no auto-start
C14_DuplicateLoadRejected ==
    [][\A l \in Labels :
          (Loaded(l) /\ \E cfg \in ConfigSet : LoadJob(l, cfg))
              => /\ call' = Returned("load_job", l, "JobExists", "lookup")
                 /\ UNCHANGED <<jobs, children, pendingStart, startSpawn,
                                startOk, startErr, stops, restartQ, handler,
                                bus, sent>>]_vars

\* a second load_job of a label whose job is running has just been refused
C14_Witness ==
    /\ call = Returned("load_job", "a", "JobExists", "lookup")
    /\ jobs["a"].state = Running
    /\ IsSome(jobs["a"].pid)
----------------------------------------------------------------------------
(* C15: load_job, then get_job_status *)

\* JobManager::get_job_status (manager.rs 275-292); uptime is present exactly
\* when start_time is
get_job_status(l) ==
    IF Loaded(l)
    THEN Some([label |-> l, state |-> jobs[l].state, pid |-> jobs[l].pid,
               restart_count |-> jobs[l].restart_count,
               uptime |-> jobs[l].start_time,
               exit_code |-> jobs[l].last_exit_code,
               exit_signal |-> jobs[l].last_exit_signal,
               config |-> jobs[l].config])
    ELSE None

\* the state in the status get_job_status(l) returns, None if it returns none
StatusState(l) ==
    IF IsSome(get_job_status(l)) THEN Unwrap(get_job_status(l)).state ELSE None

\* load_job is the only call made from outside, and the OS refuses no spawn
NextC15 ==
    \/ \E l \in Labels, cfg \in ConfigSet : LoadJob(l, cfg)
    \/ \E l \in Labels : StartJobEnter(l)
    \/ \E l \in Labels : SpawnOk(l)
    \/ \E p \in startOk : StartFinalizeOk(p)
    \/ \E p \in Pids : \E out \in ExitOutcomes(children[p]) : ChildExit(p, out)
    \/ ReceiveEvent
    \/ HandlerRecv
    \/ HandlerWake
    \/ \E d \in Timers : Tick(d)

\* The runtime runs the spawned auto-start task: it gets the registry lock,
\* its spawn returns, it gets the lock again
SpecC15 ==
    /\ Init
    /\ [][NextC15]_vars
    /\ WF_vars(\E l \in Labels : StartJobEnter(l))
    /\ WF_vars(\E l \in Labels : SpawnOk(l))
    /\ WF_vars(\E p \in startOk : StartFinalizeOk(p))

\* C15: after a successful load_job, get_job_status gives a status: its state
\* is Stopped when keep_alive is false, and when keep_alive is true the job
\* becomes Running without any start_job from outside
C15_StatusAfterLoad ==
    \A l \in Labels :
        /\ [](Loaded(l) => IsSome(get_job_status(l)))
        /\ []((Loaded(l) /\ ~jobs[l].config.keep_alive)
                 => StatusState(l) = Stopped)
        /\ (/\ call = Returned("load_job", l, "Ok", "end")
            /\ jobs[l].config.keep_alive)
              ~> (StatusState(l) = Running)

\* the auto-start of a keep_alive job has just returned, the job is Running
C15_Witness ==
    /\ call = Returned("start_job", "a", "Ok", "end")
    /\ ncalls = 1
    /\ jobs["a"].config.keep_alive
    /\ StatusState("a") = Running
----------------------------------------------------------------------------
(* Two labels, and handle_process_exit called from outside *)

AllLabels == {"a", "b"}

\* a one-shot job and a service that may be restarted twice
ConfigSet2 ==
    { Supervision(FALSE, "Always", 1, 0),
      Supervision(TRUE, "OnCrash", 1, 2) }

Init2 ==
    /\ jobs = <<>>
    /\ children = <<>>
    /\ pendingStart = [l \in AllLabels |-> 0]
    /\ startSpawn = [l \in AllLabels |-> 0]
    /\ startOk = {}
    /\ startErr = [l \in AllLabels |-> 0]
    /\ stops = {}
    /\ restartQ = <<>>
    /\ handler = [pc |-> "idle", label |-> "", wake |-> 0]
    /\ bus = <<>>
    /\ sent = {}
    /\ ncalls = 0
    /\ call = NoCall
    /\ rxOpen = TRUE
    /\ supervisor = NewSupervisor
    /\ restartPath = NewRestartPath

\* a handle_process_exit that reports the exit of a job it does not know
CallHandleProcessExitLoud(l, code, sig, rn) ==
    /\ ncalls < MaxCalls
    /\ ncalls' = ncalls + 1
    /\ Publish(<< <<"JobExited", l, code, sig, 0, 0, "manager", FALSE>> >>)
    /\ UNCHANGED <<jobs, restartQ, children, pendingStart, startSpawn, startOk,
                   startErr, stops, handler>>
    /\ call' = Returned("handle_process_exit", l,
                        IF Loaded(l) THEN "Ok" ELSE "JobNotFound",
                        IF Loaded(l) THEN "end" ELSE "lookup")
    /\ UNCHANGED <<rxOpen, supervisor, restartPath>>

\* JobManager::handle_process_exit (manager.rs 316-382) called by a client of
\* the manager, with arguments of its choosing; the exit is that of no child
\* the spawner knows (child 0)
CallHandleProcessExit(l, code, sig, rn) ==
    /\ ncalls < MaxCalls
    /\ ncalls' = ncalls + 1
    /\ IF Loaded(l)
       THEN LET r == handle_process_exit(jobs[l], l, code, sig, rn, 0) IN
              /\ jobs' = [jobs EXCEPT ![l] = r.inst]
              /\ restartQ' = restartQ \o r.req
              /\ Publish(r.ev)
       ELSE UNCHANGED <<jobs, restartQ, bus, sent>>
    /\ UNCHANGED <<children, pendingStart, startSpawn, startOk, startErr,
                   stops, handler>>
    /\ call' = IF ~Loaded(l)
               THEN Returned("handle_process_exit", l, "JobNotFound", "lookup")
               ELSE ReturnedWith("handle_process_exit", l, Sent("Ok"),
                                 IF rxOpen
                                 THEN handle_process_exit(jobs[l], l, code, sig,
                                                          rn, 0).ev
                                 ELSE <<>>)
    /\ UNCHANGED <<rxOpen, supervisor, restartPath>>

Next2 ==
    \/ \E l \in AllLabels, cfg \in ConfigSet2 : LoadJob(l, cfg)
    \/ \E l \in AllLabels : CallStartJob(l)
    \/ \E l \in AllLabels : StartJobEnter(l)
    \/ \E l \in AllLabels : SpawnOk(l)
    \/ \E l \in AllLabels : SpawnFail(l)
    \/ \E p \in startOk : StartFinalizeOk(p)
    \/ \E l \in AllLabels : StartFinalizeErr(l)
    \/ \E p \in Pids : \E out \in ExitOutcomes(children[p]) : ChildExit(p, out)
    \/ \E l \in AllLabels : StopJobEnter(l, FALSE)
    \/ \E t \in stops : StopWaitDone(t)
    \/ \E t \in stops : StopTimeout(t)
    \/ \E t \in stops : StopFinalize(t)
    \/ \E l \in AllLabels, rn \in BOOLEAN :
          CallHandleProcessExit(l, 1, None, rn)
    \/ ReceiveEvent
    \/ HandlerRecv
    \/ HandlerWake
    \/ \E d \in Timers : Tick(d)

Spec2 == Init2 /\ [][Next2]_vars
----------------------------------------------------------------------------
(* C16: calls with a label that is not in the registry *)

\* what a call that fails at the lookup leaves alone: the instances, the
\* children and the signals sent to them, the restart requests, the events
Untouched ==
    UNCHANGED <<jobs, children, startSpawn, startOk, startErr, stops,
                restartQ, handler, bus, sent>>

\* C16: start_job, stop_job and handle_process_exit called with a label that
\* is not in the registry fail with JobNotFound, change no instance, spawn or
\* signal no process and emit no event; get_job_status returns nothing for
\* such a label
C16_UnknownLabelRejected ==
    /\ [][\A l \in AllLabels : ~Loaded(l) =>
            /\ StartJobEnter(l)
                  => /\ call' = Returned("start_job", l, "JobNotFound", "lookup")
                     /\ Untouched
            /\ StopJobEnter(l, FALSE)
                  => /\ call' = Returned("stop_job", l, "JobNotFound", "lookup")
                     /\ Untouched
            /\ (\E rn \in BOOLEAN : CallHandleProcessExit(l, 1, None, rn))
                  => /\ call' = Returned("handle_process_exit", l,
                                         "JobNotFound", "lookup")
                     /\ Untouched]_vars
    /\ [](\A l \in AllLabels : ~Loaded(l) => get_job_status(l) = None)

\* handle_process_exit has just been refused for the unknown label b while
\* the job of label a is running
C16_Witness ==
    /\ call = Returned("handle_process_exit", "b", "JobNotFound", "lookup")
    /\ ~Loaded("b")
    /\ Loaded("a")
    /\ jobs["a"].state = Running
----------------------------------------------------------------------------
(* C17, C18: start_job that starts nothing *)

\* C17: start_job on a label whose state is Running or Starting returns
\* success and is a no-op: no field of the instance changes, no child is
\* spawned and no event is emitted
C17_StartOnActiveIsNoop ==
    [][\A l \in Labels :
          (/\ Loaded(l)
           /\ jobs[l].state \in {Running, Starting}
           /\ StartJobEnter(l))
              => /\ call' = Returned("start_job", l, "Ok", "check")
                 /\ Untouched]_vars

\* start_job has just returned from its state check on a running job
C17_Witness ==
    /\ call = Returned("start_job", "a", "Ok", "check")
    /\ jobs["a"].state = Running
    /\ IsSome(jobs["a"].pid)

\* C18: start_job on a label in Backoff whose deadline has not been reached
\* returns success without starting: state, backoff_until and restart_count
\* are unchanged, no child is spawned, no event is emitted; once the deadline
\* has passed, start_job proceeds to Starting and clears backoff_until
C18_StartInBackoff ==
    [][\A l \in Labels :
          (/\ Loaded(l)
           /\ jobs[l].state = Backoff
           /\ IsSome(jobs[l].backoff_until)
           /\ StartJobEnter(l))
              => IF Unwrap(jobs[l].backoff_until) > 0
                 THEN /\ call' = Returned("start_job", l, "Ok", "check")
                      /\ Untouched
                 ELSE /\ jobs'[l].state = Starting
                      /\ jobs'[l].backoff_until = None
                      /\ startSpawn'[l] = startSpawn[l] + 1
                      /\ call' = NoCall]_vars

\* start_job has just returned from its state check on a job whose backoff
\* has not run out
C18_Witness ==
    /\ call = Returned("start_job", "a", "Ok", "check")
    /\ jobs["a"].state = Backoff
    /\ IsSome(jobs["a"].backoff_until)
    /\ Unwrap(jobs["a"].backoff_until) > 0
----------------------------------------------------------------------------
(* C19: a spawn that fails; C20: stop_job on a stopped job *)

\* C19: when the spawner fails inside start_job(L), L is moved to
\* Failed("Failed to start: ...") with no pid and no monitor handle, the spawn
\* error is returned, JobFailed(L) is emitted and no other label's instance
\* is changed
C19_SpawnFailureMarksFailed ==
    [][\A l \in AllLabels :
          StartFinalizeErr(l)
              => /\ jobs'[l].state = FailedToStart
                 /\ jobs'[l].pid = None
                 /\ jobs'[l].process_handle = None
                 /\ call' = Returned("start_job", l, "SpawnError", "end")
                 /\ <<"JobFailed", l>> \in sent'
                 /\ \A o \in DOMAIN jobs \ {l} : jobs'[o] = jobs[o]]_vars

\* C20: stop_job on a label that is Stopped is a no-op: it returns success,
\* the label is never observable in a state other than Stopped during the
\* call, no signal is sent and no event is emitted
C20_StopOnStoppedIsNoop ==
    [][/\ \A l \in Labels :
            (/\ Loaded(l)
             /\ jobs[l].state = Stopped
             /\ \E rs \in BOOLEAN : StopJobEnter(l, rs))
                => /\ jobs'[l].state = Stopped
                   /\ UNCHANGED <<children, bus, sent>>
       /\ \A t \in stops :
            (t.prev = Stopped /\ StopFinalize(t))
                => /\ call'.fn = "stop_job" /\ call'.result = "Ok"
                   /\ jobs'[t.label] = jobs[t.label]
                   /\ UNCHANGED <<children, bus, sent>>]_vars
----------------------------------------------------------------------------
(* C21: what stop_job leaves when it returns success *)

\* C21: the call of stop_job(L) remembers the state L had when it took the
\* lock; when it returns success L is Stopped with pid, start_time and
\* monitor handle absent, and the one event the return publishes is
\* JobStopped(L, that state), whatever start_job calls are in flight
C21_StopLeavesStopped ==
    [][/\ \A l \in Labels :
            (Loaded(l) /\ \E rs \in BOOLEAN : StopJobEnter(l, rs))
                => \E t \in stops' \ stops :
                      t.label = l /\ t.prev = jobs[l].state
       /\ \A t \in stops :
            StopFinalize(t)
                => /\ call' = ReturnedWith("stop_job", t.label, "Ok",
                                           << <<"JobStopped", t.label, t.prev>> >>)
                   /\ jobs'[t.label].state = Stopped
                   /\ jobs'[t.label].pid = None
                   /\ jobs'[t.label].start_time = None
                   /\ jobs'[t.label].process_handle = None
                   /\ sent' = sent \cup {<<"JobStopped", t.label>>}
                   /\ bus' = bus]_vars

\* stop_job of a running job has just returned after the 10 seconds ran out
\* and SIGKILL was sent, while a start_job call on the label is mid-spawn
C21_Witness ==
    /\ call = ReturnedWith("stop_job", "a", "Ok",
                            << <<"JobStopped", "a", Running>> >>)
    /\ jobs["a"].state = Stopped
    /\ \E p \in Pids : children[p].sigkill
    /\ startSpawn["a"] = 1
----------------------------------------------------------------------------
(* C22: events and a receiver that has terminated *)

\* The owner of the receiving end that JobManager::new hands out
\* (manager.rs 47, 63) drops it: the events still in the channel are gone
\* and every later tx.send fails
DropReceiver ==
    /\ rxOpen
    /\ rxOpen' = FALSE
    /\ bus' = <<>>
    /\ UNCHANGED <<jobs, children, pendingStart, startSpawn, startOk, startErr,
                   stops, restartQ, handler, sent, ncalls, supervisor,
                   restartPath>>
    /\ call' = NoCall

NextC22 ==
    \/ Next
    \/ DropReceiver

SpecC22 == Init /\ [][NextC22]_vars

\* the step has completed an operation that returned the System error
FailedWithSystem == call # NoCall /\ call.result = "System"

\* C22: every event a producer tries to publish is delivered to the bus or,
\* the receiver having terminated, makes the producing operation fail with
\* the System error: for load_job, start_job and stop_job, for the monitor
\* task and for the restart wake-up handler
C22_NoEventDroppedSilently ==
    [][/\ \A l \in Labels :
            (~Loaded(l) /\ \E cfg \in ConfigSet : LoadJob(l, cfg))
                => \/ <<"JobLoaded", l>> \in sent' \ sent
                   \/ FailedWithSystem'
       /\ \A p \in startOk :
            StartFinalizeOk(p)
                => \/ <<"JobStarted", children[p].label, p>> \in sent' \ sent
                   \/ FailedWithSystem'
       /\ \A t \in stops :
            StopFinalize(t)
                => \/ <<"JobStopped", t.label>> \in sent'
                   \/ FailedWithSystem'
       /\ \A p \in Pids :
            (\E out \in ExitOutcomes(children[p]) : ChildExit(p, out))
                => \/ /\ <<"JobExited", children[p].label, p, "monitor">>
                            \in sent' \ sent
                      /\ Len(bus') > Len(bus)
                   \/ FailedWithSystem'
       /\ (/\ HandlerWake
           /\ Loaded(handler.label)
           /\ WakeApplies(jobs[handler.label]))
                => \/ bus' = Append(bus, <<"JobReadyForRestart", handler.label>>)
                   \/ FailedWithSystem']_vars
----------------------------------------------------------------------------
(* C23: Failed is left only by a command from outside *)

\* the steps nobody outside asks for: a child ends and its monitor reports,
\* the receiver hands an exit notification to handle_process_exit, the
\* restart handler takes a request or wakes up, time passes
InternalStep ==
    \/ \E p \in Pids : \E out \in ExitOutcomes(children[p]) : ChildExit(p, out)
    \/ ReceiveEvent
    \/ HandlerRecv
    \/ HandlerWake
    \/ \E d \in Timers : Tick(d)

\* C23: once a label is in Failed, no internal activity (a restart wake-up,
\* a pending restart request, an exit notification of a monitor handled by
\* handle_process_exit) moves it to another state
C23_FailedIsTerminal ==
    [][\A l \in Labels :
          (Loaded(l) /\ IsFailed(jobs[l].state) /\ InternalStep)
              => jobs'[l].state = jobs[l].state]_vars
----------------------------------------------------------------------------
(* C24: the registry as get_job_status and list_jobs show it *)

\* JobManager::list_jobs (manager.rs 295-313): one JobStatus for each entry
\* of the registry, in the order the map happens to iterate
list_jobs == {Unwrap(get_job_status(l)) : l \in DOMAIN jobs}

\* a client calls get_job_status(l): the read lock, a snapshot (manager.rs
\* 275-292)
CallGetJobStatus(l) ==
    /\ call' = [fn |-> "get_job_status", label |-> l,
                result |-> get_job_status(l)]
    /\ UNCHANGED <<jobs, children, pendingStart, startSpawn, startOk, startErr,
                   stops, restartQ, handler, bus, sent, ncalls, rxOpen,
                   supervisor, restartPath>>

\* a client calls list_jobs (manager.rs 295-313)
CallListJobs ==
    /\ call' = [fn |-> "list_jobs", label |-> "", result |-> list_jobs]
    /\ UNCHANGED <<jobs, children, pendingStart, startSpawn, startOk, startErr,
                   stops, restartQ, handler, bus, sent, ncalls, rxOpen,
                   supervisor, restartPath>>

\* Jobs are loaded and stopped from outside and read at any time; the
\* receiver of the events may be dropped
NextC24 ==
    \/ \E l \in AllLabels, cfg \in ConfigSet2 : LoadJob(l, cfg)
    \/ \E l \in AllLabels : StartJobEnter(l)
    \/ \E l \in AllLabels : SpawnOk(l)
    \/ \E p \in startOk : StartFinalizeOk(p)
    \/ \E p \in Pids : \E out \in ExitOutcomes(children[p]) : ChildExit(p, out)
    \/ \E l \in AllLabels : StopJobEnter(l, FALSE)
    \/ \E t \in stops : StopWaitDone(t)
    \/ \E t \in stops : StopTimeout(t)
    \/ \E t \in stops : StopFinalize(t)
    \/ ReceiveEvent
    \/ HandlerRecv
    \/ HandlerWake
    \/ \E d \in Timers : Tick(d)
    \/ DropReceiver
    \/ \E l \in AllLabels : CallGetJobStatus(l)
    \/ CallListJobs

SpecC24 == Init2 /\ [][NextC24]_vars

\* the labels whose load_job has returned Ok: it does so exactly when its
\* JobLoaded has been delivered (manager.rs 112)
EverLoaded == {l \in AllLabels : <<"JobLoaded", l>> \in sent}

\* C24: after any sequence of operations list_jobs holds exactly one status
\* for each label that was ever successfully loaded and none for any other,
\* get_job_status(label) is present exactly for those labels, no label is
\* removed, the config reported for a label is the one given at its load,
\* and get_job_status and list_jobs change no instance
C24_RegistryMatchesLoads ==
    [][/\ \A l \in AllLabels :
            /\ (l \in EverLoaded') <=> IsSome(get_job_status(l))'
            /\ l \in EverLoaded'
                  => Cardinality({s \in list_jobs' : s.label = l}) = 1
            /\ Loaded(l)
                  => /\ Loaded(l)'
                     /\ Unwrap(get_job_status(l))'.config = jobs[l].config
            /\ \A cfg \in ConfigSet2 :
                  (~Loaded(l) /\ LoadJob(l, cfg))
                      => Unwrap(get_job_status(l))'.config = cfg
       /\ \A s \in list_jobs' : s.label \in EverLoaded'
       /\ (CallListJobs \/ \E l \in AllLabels : CallGetJobStatus(l))
              => UNCHANGED <<jobs, children, stops>>]_vars
----------------------------------------------------------------------------
(* Loading a job description: JobConfig::from_file on documents drawn from  *)
(* bounded sets.  A string is the sequence of its characters.               *)

\* the labels of the documents: empty, blank, plain, and with characters
\* that a file name cannot hold
DocLabels ==
    { <<>>, <<" ">>, <<"w", "e", "b">>, <<"a", "/", "b">>, <<"a", ":">>,
      <<"|", "a">> }

\* the program paths of the documents: empty, absolute, relative
DocPaths ==
    { <<>>, <<"/", "b", "i", "n", "/", "x">>, <<"b", "i", "n", "/", "x">>,
      <<".", "/", "x">> }

\* the [supervision] sections of the documents: each key present or not
DocSections ==
    [keep_alive : {None, Some(TRUE), Some(FALSE)},
     restart_policy : {None, Some("Never"), Some("Always")},
     restart_delay_sec : {None, Some(7)},
     max_restarts : {None, Some(2)}]

\* the documents: the section itself may be missing
Docs ==
    [label : DocLabels, path : DocPaths,
     supervision : {None} \cup {Some(sec) : sec \in DocSections}]

\* the default value helpers (config.rs 82-84)
default_true == TRUE
default_restart_delay == 1
default_max_restarts == 5

\* RestartPolicy::default (config.rs 69-73)
RestartPolicyDefault == "OnFailure"

\* SupervisionConfig::default as #[derive(Default)] builds it (config.rs
\* 41): bool::default, RestartPolicy::default, u64::default, u32::default
SupervisionConfigDefault == Supervision(FALSE, RestartPolicyDefault, 0, 0)

\* a field of a section that is present: the value, or what its serde
\* default attribute gives
OrDefault(o, dflt) == IF IsSome(o) THEN Unwrap(o) ELSE dflt

\* What serde makes of the supervision section (config.rs 18-20, 41-58): a
\* missing section is SupervisionConfig::default(), a missing field of a
\* section that is present is its own default
deserialize_supervision(sec) ==
    IF IsSome(sec)
    THEN Supervision(OrDefault(Unwrap(sec).keep_alive, default_true),
                     OrDefault(Unwrap(sec).restart_policy, RestartPolicyDefault),
                     OrDefault(Unwrap(sec).restart_delay_sec,
                               default_restart_delay),
                     OrDefault(Unwrap(sec).max_restarts, default_max_restarts))
    ELSE SupervisionConfigDefault

\* str::trim().is_empty(): nothing but white space
IsBlank(str) == \A i \in 1..Len(str) : str[i] = " "

\* the characters ConfigValidator::validate_label refuses (validator.rs 36)
InvalidChars == {"/", "\\", ":", "*", "?", "\"", "<", ">", "|"}

\* Path::is_absolute
IsAbsolute(path) == Len(path) > 0 /\ path[1] = "/"

\* JobConfig::validate (config.rs 111-134): TRUE when it returns Ok(())
validate(cfg) ==
    /\ ~IsBlank(cfg.label)
    /\ cfg.path # <<>>

\* JobConfig::from_file on a file that exists and parses (config.rs 88-108)
from_file(doc) ==
    LET cfg == [label |-> doc.label, path |-> doc.path,
                supervision |-> deserialize_supervision(doc.supervision)]
    IN IF validate(cfg)
       THEN [result |-> "Ok", config |-> Some(cfg)]
       ELSE [result |-> "Validation", config |-> None]

\* from_file is evaluated on doc
EvalFromFile(doc) ==
    /\ call' = [fn |-> "from_file", doc |-> doc,
                result |-> from_file(doc).result,
                config |-> from_file(doc).config]
    /\ UNCHANGED <<jobs, children, pendingStart, startSpawn, startOk, startErr,
                   stops, restartQ, handler, bus, sent, ncalls, rxOpen,
                   supervisor, restartPath>>

NextCfg == \E doc \in Docs : EvalFromFile(doc)

SpecCfg == Init /\ [][NextCfg]_vars

----------------------------------------------------------------------------
(* C25, C26 *)

\* C25: a job description that omits supervision settings, a single field
\* or the whole section, is loaded with the defaults keep_alive = true,
\* restart_policy = on-failure, restart_delay_sec = 1, max_restarts = 5
C25_SupervisionDefaults ==
    (call.fn = "from_file" /\ call.result = "Ok") =>
        LET sup == Unwrap(call.config).supervision
            sec == call.doc.supervision
            Omitted(f) == sec = None \/ Unwrap(sec)[f] = None
        IN /\ Omitted("keep_alive") => sup.keep_alive = TRUE
           /\ Omitted("restart_policy") => sup.restart_policy = "OnFailure"
           /\ Omitted("restart_delay_sec") => sup.restart_delay_sec = 1
           /\ Omitted("max_restarts") => sup.max_restarts = 5

\* C26: loading fails with a Validation error and yields no JobConfig
\* whenever the label is empty or contains one of / \ : * ? " < > |, or
\* program.path is empty or not an absolute path
C26_InvalidDescriptionRejected ==
    call.fn = "from_file" =>
        ((\/ call.doc.label = <<>>
          \/ \E i \in 1..Len(call.doc.label) : call.doc.label[i] \in InvalidChars
          \/ call.doc.path = <<>>
          \/ ~IsAbsolute(call.doc.path))
            => call.result = "Validation" /\ call.config = None)
----------------------------------------------------------------------------
(* C27: the exit of a job that is not to be restarted *)

\* the receiver is about to hand the exit notification e of a child of the
\* loaded label l to handle_process_exit
ExitToHandle(l) ==
    /\ Loaded(l)
    /\ bus # <<>>
    /\ IsMonitorExit(Head(bus))
    /\ Head(bus)[2] = l

\* a supervision config under which no exit warrants a restart
NeverRestarts(cfg) ==
    \A code \in {0, 1, -1}, sig \in {None, Some(9)} :
        ~RestartNeeded(cfg, code, sig)

\* C27: handling an exit that does not warrant a restart records
\* last_exit_code and last_exit_signal, clears pid and monitor handle, leaves
\* restart_count unchanged, moves the job to Stopped and emits one JobExited
\* that carries the instance's restart_count; no RestartRequest is enqueued,
\* and a Stopped job whose exits never warrant a restart is moved out of
\* Stopped by no internal step
C27_OneShotExit ==
    [][\A l \in Labels :
          /\ (ExitToHandle(l) /\ ~Head(bus)[8] /\ ReceiveEvent)
                => /\ jobs'[l].last_exit_code = Some(Head(bus)[3])
                   /\ jobs'[l].last_exit_signal = Head(bus)[4]
                   /\ jobs'[l].pid = None
                   /\ jobs'[l].process_handle = None
                   /\ jobs'[l].restart_count = jobs[l].restart_count
                   /\ jobs'[l].state = Stopped
                   /\ Len(call'.emitted) = 1
                   /\ SubSeq(call'.emitted[1], 1, 5)
                         = <<"JobExited", l, Head(bus)[3], Head(bus)[4],
                             jobs[l].restart_count>>
                   /\ <<"JobExited", l, Head(bus)[6], "manager">> \in sent'
                   /\ restartQ' = restartQ
          /\ (/\ Loaded(l)
              /\ NeverRestarts(jobs[l].config)
              /\ jobs[l].state = Stopped
              /\ InternalStep)
                => jobs'[l].state = Stopped]_vars

\* the exit of a child of a one-shot job with code 0 has just been handled
C27_Witness ==
    /\ call = ReturnedWith("handle_process_exit", "a", "Ok",
                            << <<"JobExited", "a", 0, None, 0, 1, "manager",
                                 FALSE>> >>)
    /\ ~jobs["a"].config.keep_alive
    /\ jobs["a"].state = Stopped
    /\ jobs["a"].last_exit_code = Some(0)
    /\ restartQ = <<>>
----------------------------------------------------------------------------
(* C28: the exit of a job that is to be restarted *)

\* what C28 states of a step in which handle_process_exit has handled, with
\* restart_needed = true, an exit of the loaded label l
RestartHandled(l) ==
    LET n == jobs[l].restart_count + 1
        maxr == jobs[l].config.max_restarts
    IN /\ jobs'[l].restart_count = n
       /\ Len(call'.emitted) = 1
       /\ IF maxr > 0 /\ n >= maxr
          THEN /\ jobs'[l].state = FailedMaxRestarts(maxr)
               /\ call'.emitted[1] = <<"JobFailed", l, FailedMaxRestarts(maxr)>>
               /\ restartQ' = restartQ
          ELSE /\ IsSome(jobs'[l].backoff_until)
               /\ jobs'[l].state = Backoff
               /\ Len(restartQ') = Len(restartQ) + 1
               /\ SubSeq(restartQ', 1, Len(restartQ)) = restartQ
               /\ restartQ'[Len(restartQ')].label = l
               /\ call'.emitted[1][1] = "JobRestartScheduled"
               /\ call'.emitted[1][2] = l
               /\ call'.emitted[1][4] = n

\* C28: handle_process_exit with restart_needed = true adds exactly 1 to
\* restart_count; if max_restarts > 0 and the new count >= max_restarts it
\* moves the job to Failed("Exceeded max restarts (N)"), emits JobFailed and
\* enqueues no RestartRequest; otherwise it sets backoff_until, moves the job
\* to Backoff, enqueues exactly one RestartRequest for the label and emits
\* JobRestartScheduled carrying the new restart_count
C28_RestartCountedAndScheduled ==
    [][\A l \in AllLabels :
          /\ (ExitToHandle(l) /\ Head(bus)[8] /\ ReceiveEvent)
                => RestartHandled(l)
          /\ (Loaded(l) /\ CallHandleProcessExit(l, 1, None, TRUE))
                => RestartHandled(l)]_vars

\* the second restart of a job that allows two has just been refused: the
\* count has reached max_restarts, the job is Failed, no request is queued
C28_Witness ==
    /\ call = ReturnedWith("handle_process_exit", "a", "Ok",
                            << <<"JobFailed", "a", FailedMaxRestarts(2)>> >>)
    /\ jobs["a"].restart_count = 2
    /\ jobs["a"].state = FailedMaxRestarts(2)
    /\ restartQ = <<>>
----------------------------------------------------------------------------
(* C29: what the monitor task publishes *)

\* C29: for each child exit the monitor publishes exactly one
\* JobExited(label, code, signal, 0) and then, strictly after it,
\* JobReadyForRestart(label) if and only if keep_alive is true and the
\* restart policy matches the exit (always; on-failure with code # 0;
\* on-crash with a signal); for a job with keep_alive = false neither
\* JobReadyForRestart nor JobRestartScheduled is ever published
C29_MonitorEvents ==
    [][/\ \A p \in Pids : \A out \in ExitOutcomes(children[p]) :
            ChildExit(p, out)
                => LET cfg == children[p].config
                       l == children[p].label
                       n == Len(bus)
                       warranted ==
                           /\ cfg.keep_alive
                           /\ \/ cfg.restart_policy = "Always"
                              \/ cfg.restart_policy = "OnFailure" /\ out[1] # 0
                              \/ cfg.restart_policy = "OnCrash" /\ out[2] # None
                   IN /\ SubSeq(bus', 1, n) = bus
                      /\ Len(bus') = n + (IF warranted THEN 2 ELSE 1)
                      /\ SubSeq(bus'[n + 1], 1, 5)
                            = <<"JobExited", l, out[1], out[2], 0>>
                      /\ warranted => bus'[n + 2] = <<"JobReadyForRestart", l>>
       /\ \A l \in DOMAIN jobs' :
            ~jobs'[l].config.keep_alive
                => /\ <<"JobReadyForRestart", l>> \notin sent'
                   /\ <<"JobRestartScheduled", l>> \notin sent']_vars

\* the child of a job with keep_alive = false and restart_policy = always
\* has failed: its monitor has published JobExited and nothing else
C29_Witness ==
    /\ Loaded("a")
    /\ jobs["a"].config = Supervision(FALSE, "Always", 1, 0)
    /\ Len(children) = 1
    /\ ~children[1].alive
    /\ bus = << MonitorExited("a", 1, None, 1, FALSE) >>
----------------------------------------------------------------------------
(* C30: the restart wake-up *)

\* C30: a restart wake-up never starts a job itself: when the delay of a
\* RestartRequest for L has elapsed, if L is in Backoff (or Restarting) the
\* handler sets L to Stopped and emits exactly one JobReadyForRestart(L); if
\* L is in any other state the handler changes nothing and emits nothing
C30_WakeUpOnlyAnnounces ==
    [][HandlerWake
          => LET l == handler.label IN
             /\ UNCHANGED <<children, pendingStart, startSpawn, startOk,
                            startErr, stops, restartQ>>
             /\ IF Loaded(l) /\ jobs[l].state \in {Backoff, Restarting}
                THEN /\ jobs'[l].state = Stopped
                     /\ \A o \in DOMAIN jobs \ {l} : jobs'[o] = jobs[o]
                     /\ bus' = Append(bus, <<"JobReadyForRestart", l>>)
                     /\ call'.emitted = << <<"JobReadyForRestart", l>> >>
                ELSE /\ UNCHANGED <<jobs, bus, sent>>
                     /\ call'.emitted = <<>>]_vars

\* the wake-up has found the job started again meanwhile and has left it
\* Running
C30_Witness ==
    /\ call = ReturnedWith("handle_restart_request", "a", "Ok", <<>>)
    /\ jobs["a"].state = Running
    /\ IsSome(jobs["a"].pid)
----------------------------------------------------------------------------
(* The registry lock on the way from an exit to the wake-up.  The jobs are  *)
(* counted, not named: each exit is that of another label and warrants a    *)
(* restart, and the receiver of the events is running.                      *)

\* the capacity of the restart-request channel
RestartChannelCapacity == 50

\* exits that warrant a restart, each of another label
MaxExits == 52

\* the rest of the model does not move
PathFrame ==
    UNCHANGED <<jobs, children, pendingStart, startSpawn, startOk, startErr,
                stops, restartQ, handler, bus, sent, ncalls, call, rxOpen,
                supervisor>>

\* the registry write lock is free: handle_process_exit is the one operation
\* on this path that keeps it over an await
LockFree == restartPath.hpe = "idle"

\* the child of one more label exits and handle_process_exit is to be called
\* for it (spawner.rs 110-122)
ExitReported ==
    /\ restartPath.exits + restartPath.backoff + restartPath.ready
          + (IF restartPath.handler = "send" THEN 1 ELSE 0) < MaxExits
    /\ restartPath' = [restartPath EXCEPT !.exits = @ + 1]
    /\ PathFrame

\* handle_process_exit takes the write lock, counts the restart, sets Backoff
\* and reaches restart_tx.send(..).await with the guard alive
\* (manager.rs 325-359)
HpeLock ==
    /\ restartPath.exits > 0
    /\ LockFree
    /\ restartPath' = [restartPath EXCEPT !.exits = @ - 1, !.backoff = @ + 1,
                                          !.hpe = "restart_send"]
    /\ PathFrame

\* restart_tx.send completes once the channel has room (manager.rs 359-363);
\* the call goes on to the send of JobRestartScheduled (365-369)
HpeRestartSent ==
    /\ restartPath.hpe = "restart_send"
    /\ restartPath.chan < RestartChannelCapacity
    /\ restartPath' = [restartPath EXCEPT !.chan = @ + 1, !.hpe = "event_send"]
    /\ PathFrame

\* the event is taken by the channel; handle_process_exit returns and its
\* guard is dropped (manager.rs 365-382)
HpeEventSent ==
    /\ restartPath.hpe = "event_send"
    /\ restartPath' = [restartPath EXCEPT !.hpe = "idle"]
    /\ PathFrame

\* restart_rx.recv() gives the handler the next request and the handler
\* starts its sleep (manager.rs 72, 410)
PathRecv ==
    /\ restartPath.handler = "recv"
    /\ restartPath.chan > 0
    /\ restartPath' = [restartPath EXCEPT !.chan = @ - 1, !.handler = "sleep"]
    /\ PathFrame

\* the sleep is over; the handler asks for the write lock (manager.rs 410-412)
PathSlept ==
    /\ restartPath.handler = "sleep"
    /\ restartPath' = [restartPath EXCEPT !.handler = "lock"]
    /\ PathFrame

\* the handler gets the write lock, sets Stopped and drops the lock
\* (manager.rs 412-419)
PathLocked ==
    /\ restartPath.handler = "lock"
    /\ LockFree
    /\ restartPath' = [restartPath EXCEPT !.backoff = @ - 1, !.handler = "send"]
    /\ PathFrame

\* JobReadyForRestart is sent; the handler returns to recv (manager.rs 423, 72)
PathSent ==
    /\ restartPath.handler = "send"
    /\ restartPath' = [restartPath EXCEPT !.ready = @ + 1, !.handler = "recv"]
    /\ PathFrame

NextPath ==
    \/ ExitReported
    \/ HpeLock
    \/ HpeRestartSent
    \/ HpeEventSent
    \/ PathRecv
    \/ PathSlept
    \/ PathLocked
    \/ PathSent

\* Fair scheduling: every task that can take its next step takes it
SpecPath ==
    /\ Init
    /\ [][NextPath]_vars
    /\ WF_vars(HpeLock)
    /\ WF_vars(HpeRestartSent)
    /\ WF_vars(HpeEventSent)
    /\ WF_vars(PathRecv)
    /\ WF_vars(PathSlept)
    /\ WF_vars(PathLocked)
    /\ WF_vars(PathSent)

----------------------------------------------------------------------------
(* C31: the lock and the suspension points *)

\* C31: no manager operation and no restart handler holds the registry write
\* lock while it is suspended on a spawn, a child wait, a timer or a channel
\* send: handle_process_exit is never suspended on the send of the restart
\* request or of its event with the lock held
C31_NoLockAcrossSuspension ==
    restartPath.hpe \notin {"restart_send", "event_send"}

----------------------------------------------------------------------------
(* C37: every backoff ends *)

\* C37: under fair scheduling and with a running event processor every job
\* that enters Backoff eventually leaves it through the wake-up, whatever the
\* number of labels in Backoff at once: the jobs in Backoff always drain
C37_BackoffEnds ==
    (restartPath.backoff > 0) ~> (restartPath.backoff = 0)

----------------------------------------------------------------------------
(* JobSupervisor: the restart queue and the backoff tracker.  Each call is  *)
(* one step.                                                                *)

\* schedule_restart calls in one behaviour
MaxScheduled == 3

\* the latest instant of the supervisor's clock
MaxNow == 3

\* the configs and restart counts schedule_restart is called with: backoffs
\* of 0, 1, 2 and 4 seconds
SupConfigs == {Supervision(TRUE, "Always", d, 0) : d \in {0, 1, 2}}
SupCounts == {0, 1}

\* The supervisor's frame: the manager's part of the model does not move
SupFrame ==
    UNCHANGED <<jobs, children, pendingStart, startSpawn, startOk, startErr,
                stops, restartQ, handler, bus, sent, ncalls, rxOpen,
                restartPath>>

\* a sort that puts job before the requests of its own instant
PushSortedUnstable(queue, job) ==
    LET k == Cardinality({i \in 1..Len(queue) :
                              queue[i].scheduled_at < job.scheduled_at})
    IN SubSeq(queue, 1, k) \o <<job>> \o SubSeq(queue, k + 1, Len(queue))

\* queue.push(job); queue.sort_by_key(|j| j.scheduled_at) on a queue that is
\* sorted (supervisor.rs 82-84): the sort is stable, so job comes to rest
\* behind every request whose scheduled_at is not later than its own
PushSorted(queue, job) ==
    LET k == Cardinality({i \in 1..Len(queue) :
                              queue[i].scheduled_at <= job.scheduled_at})
    IN SubSeq(queue, 1, k) \o <<job>> \o SubSeq(queue, k + 1, Len(queue))

\* HashMap::remove
Remove(map, key) == [k \in DOMAIN map \ {key} |-> map[k]]

\* schedule_restart(label, config, restart_count) (supervisor.rs 67-104).
\* seq is not a field of RestartJob: it numbers the requests in the order of
\* the calls that made them
ScheduleRestart(label, config, restart_count) ==
    LET backoff == calculate_backoff(config, restart_count)
        restart_job == [label |-> label,
                        scheduled_at |-> supervisor.now + backoff,
                        attempt |-> restart_count + 1,
                        seq |-> supervisor.scheduled + 1]
    IN /\ supervisor.scheduled < MaxScheduled
       /\ supervisor' =
              [supervisor EXCEPT
                  !.queue = PushSorted(@, restart_job),
                  !.tracker = Insert(@, label,
                                     [backoff_until |-> supervisor.now + backoff,
                                      attempt |-> restart_count + 1]),
                  !.scheduled = @ + 1]
       /\ call' = Returned("schedule_restart", label, backoff, "end")
       /\ SupFrame

\* The loop of get_ready_jobs (supervisor.rs 114-126) from index i on: a
\* request whose scheduled_at has passed is removed from the queue, its label
\* is pushed to ready and removed from the tracker
RECURSIVE ScanReady(_, _, _, _, _, _)
ScanReady(queue, tracker, now, i, ready, taken) ==
    IF i > Len(queue)
    THEN [queue |-> queue, tracker |-> tracker, ready |-> ready,
          taken |-> taken]
    ELSE IF queue[i].scheduled_at <= now
         THEN ScanReady(SubSeq(queue, 1, i - 1)
                            \o SubSeq(queue, i + 1, Len(queue)),
                        Remove(tracker, queue[i].label), now, i,
                        Append(ready, queue[i].label),
                        Append(taken, queue[i]))
         ELSE ScanReady(queue, tracker, now, i + 1, ready, taken)

\* get_ready_jobs (supervisor.rs 107-129); taken are the requests it removed
get_ready_jobs(sup) == ScanReady(sup.queue, sup.tracker, sup.now, 1, <<>>, <<>>)

GetReadyJobs ==
    LET r == get_ready_jobs(supervisor)
    IN /\ supervisor' = [supervisor EXCEPT !.queue = r.queue,
                                           !.tracker = r.tracker]
       /\ call' = ReturnedWith("get_ready_jobs", "", r.ready, r.taken)
       /\ SupFrame

\* cancel_restart(label) (supervisor.rs 132-144)
CancelRestart(label) ==
    /\ supervisor' =
           [supervisor EXCEPT
               !.queue = SelectSeq(@, LAMBDA j : j.label # label),
               !.tracker = Remove(@, label)]
    /\ call' = Returned("cancel_restart", label, "Ok", "end")
    /\ SupFrame

\* is_in_backoff(label) (supervisor.rs 147-157): the time left, or None
is_in_backoff(sup, label) ==
    IF label \in DOMAIN sup.tracker
          /\ sup.tracker[label].backoff_until > sup.now
    THEN Some(sup.tracker[label].backoff_until - sup.now)
    ELSE None

\* One tick of the interval of start_restart_processor (supervisor.rs
\* 160-178): the ready labels are taken out and logged, nothing else
Sweep ==
    LET r == get_ready_jobs(supervisor)
    IN /\ supervisor' = [supervisor EXCEPT !.queue = r.queue,
                                           !.tracker = r.tracker]
       /\ call' = ReturnedWith("restart_processor", "", r.ready, r.taken)
       /\ SupFrame

\* a second passes on the supervisor's clock
SupTick ==
    /\ supervisor.now < MaxNow
    /\ supervisor' = [supervisor EXCEPT !.now = @ + 1]
    /\ call' = NoCall
    /\ SupFrame

NextSup ==
    \/ \E l \in AllLabels, c \in SupConfigs, n \in SupCounts :
           ScheduleRestart(l, c, n)
    \/ GetReadyJobs
    \/ \E l \in AllLabels : CancelRestart(l)
    \/ Sweep
    \/ SupTick

\* the interval of the restart processor keeps firing and time goes on
SpecSup ==
    /\ Init
    /\ [][NextSup]_vars
    /\ WF_vars(Sweep)
    /\ WF_vars(SupTick)

----------------------------------------------------------------------------
(* C32: what get_ready_jobs returns and removes *)

\* C32: after any sequence of schedule_restart, get_ready_jobs and
\* cancel_restart calls, get_ready_jobs returns exactly the labels of the
\* queued requests whose deadline is not after now, in ascending order of
\* deadline and, for equal deadlines, in the order they were scheduled; it
\* removes exactly those requests, purges the tracker entries of their labels
\* and leaves the later requests queued in unchanged order
C32_ReadyJobs ==
    [][GetReadyJobs =>
         LET q == supervisor.queue
             now == supervisor.now
             due == {i \in 1..Len(q) : q[i].scheduled_at <= now}
             rank(i) == Cardinality({j \in due :
                            \/ q[j].scheduled_at < q[i].scheduled_at
                            \/ /\ q[j].scheduled_at = q[i].scheduled_at
                               /\ q[j].seq < q[i].seq})
             labels == {q[i].label : i \in due}
         IN /\ Len(call'.result) = Cardinality(due)
            /\ \A i \in due : call'.result[rank(i) + 1] = q[i].label
            /\ supervisor'.queue = SelectSeq(q, LAMBDA j : j.scheduled_at > now)
            /\ DOMAIN supervisor'.tracker = DOMAIN supervisor.tracker \ labels
            /\ \A l \in DOMAIN supervisor'.tracker :
                   supervisor'.tracker[l] = supervisor.tracker[l]
      ]_vars

\* get_ready_jobs has returned two labels whose requests had the same deadline
\* and has left a later request in the queue
C32_Witness ==
    /\ call.fn = "get_ready_jobs"
    /\ Len(call.emitted) = 2
    /\ call.emitted[1].scheduled_at = call.emitted[2].scheduled_at
    /\ call.emitted[1].label # call.emitted[2].label
    /\ Len(supervisor.queue) = 1

----------------------------------------------------------------------------
(* C33: the sweep and the signal to the manager *)

\* the labels in a sequence of labels
Range(seq) == {seq[i] : i \in 1..Len(seq)}

\* C33: every label the 1-second sweep of the restart processor finds ready
\* leads to a JobReadyForRestart(label) signal
C33_SweepSignalsManager ==
    \A l \in AllLabels :
        (call.fn = "restart_processor" /\ l \in Range(call.result))
            ~> (<<"JobReadyForRestart", l>> \in sent)

----------------------------------------------------------------------------
(* C40: the tracker and the queue *)

\* a request for label is queued
Queued(label) ==
    \E i \in 1..Len(supervisor.queue) : supervisor.queue[i].label = label

\* a request for label with a deadline in the future is queued
QueuedForLater(label) ==
    \E i \in 1..Len(supervisor.queue) :
        /\ supervisor.queue[i].label = label
        /\ supervisor.queue[i].scheduled_at > supervisor.now

\* C40: after any sequence of schedule_restart, get_ready_jobs and
\* cancel_restart calls the tracker has an entry for a label iff the queue
\* holds a request for it, so is_in_backoff never reports no backoff while a
\* request of the label with a future deadline is queued
C40_TrackerMatchesQueue ==
    \A l \in AllLabels :
        /\ (l \in DOMAIN supervisor.tracker) <=> Queued(l)
        /\ QueuedForLater(l) => IsSome(is_in_backoff(supervisor, l))

----------------------------------------------------------------------------
(* C34: Stopped and the child *)

\* C34: stop_job does not finalize to Stopped until the child it signalled
\* has terminated and its monitor has ended, also when the 10 seconds have
\* passed and SIGKILL was sent
C34_StoppedMeansReaped ==
    [][\A t \in stops :
          StopFinalize(t) /\ IsSome(t.pid) =>
              /\ ~children'[Unwrap(t.pid)].alive
              /\ children'[Unwrap(t.pid)].mon = "done"
      ]_vars

----------------------------------------------------------------------------
(* C35: an explicit stop and the restart machinery *)

\* C35: after stop_job(l) has stopped a running job and returned success, the
\* exit of the stopped child
\* and the restart requests still pending never move l out of Stopped and
\* never emit JobRestartScheduled or JobReadyForRestart for l, whatever
\* keep_alive and the restart policy are: no step of the monitors, of the
\* event receiver, of the restart handler or of the clock that follows the
\* return of stop_job does so, no other call being in flight
C35_StopIsNotUndone ==
    [][\A l \in Labels :
          (/\ call.fn = "stop_job"
           /\ call.label = l
           /\ call.result = "Ok"
           /\ call.emitted = << <<"JobStopped", l, Running>> >>
           /\ pendingStart[l] = 0
           /\ startSpawn[l] = 0
           /\ startErr[l] = 0
           /\ startOk = {}
           /\ stops = {}
           /\ InternalStep)
          => /\ jobs'[l].state = Stopped
             /\ <<"JobRestartScheduled", l>> \notin sent' \ sent
             /\ <<"JobReadyForRestart", l>> \notin sent' \ sent
      ]_vars

----------------------------------------------------------------------------
(* C36: a wake-up and the current backoff period *)

\* C36: a restart wake-up never takes a job out of Backoff before the
\* deadline backoff_until of the backoff period the job is in: while time is
\* left on backoff_until, handle_restart_request leaves the job in Backoff
\* and emits no JobReadyForRestart
C36_NoWakeBeforeDeadline ==
    [][\A l \in Labels :
          (/\ HandlerWake
           /\ handler.label = l
           /\ Loaded(l)
           /\ jobs[l].state = Backoff
           /\ IsSome(jobs[l].backoff_until)
           /\ Unwrap(jobs[l].backoff_until) > 0)
          => /\ jobs'[l].state = Backoff
             /\ call'.emitted = <<>>
      ]_vars

----------------------------------------------------------------------------
(* C39: the exit of an earlier child *)

\* C39: the exit notification of an earlier child of a label, handled when
\* the instance holds the pid of a newer child, clears neither the pid nor
\* the monitor handle of the newer child and leaves the state alone (children
\* are numbered in the order they are spawned)
C39_OldExitSparesNewChild ==
    [][\A l \in Labels :
          (/\ ExitToHandle(l)
           /\ IsSome(jobs[l].pid)
           /\ Unwrap(jobs[l].pid) > Head(bus)[6]
           /\ ReceiveEvent)
          => /\ jobs'[l].pid = jobs[l].pid
             /\ jobs'[l].process_handle = jobs[l].process_handle
             /\ jobs'[l].state = jobs[l].state
      ]_vars

----------------------------------------------------------------------------
(* C38: the backoffs of two labels.  The tasks are never late here: time    *)
(* passes only while the restart handler sleeps or has nothing to take.    *)

\* two services restarted without limit, with backoffs of 2 and 6 seconds
\* after the first exit
ConfigSetC38 ==
    { Supervision(TRUE, "OnCrash", 1, 0),
      Supervision(TRUE, "OnCrash", 3, 0) }

\* Time passes, but not while the handler has a request to take
\* (manager.rs 72) or a sleep that is over (manager.rs 410-412)
TickInTime(d) ==
    /\ ~(handler.pc = "idle" /\ restartQ # <<>>)
    /\ ~(handler.pc = "sleep" /\ handler.wake = 0)
    /\ Tick(d)

NextC38 ==
    \/ \E l \in AllLabels, cfg \in ConfigSetC38 : LoadJob(l, cfg)
    \/ \E l \in AllLabels : StartJobEnter(l)
    \/ \E l \in AllLabels : SpawnOk(l)
    \/ \E p \in startOk : StartFinalizeOk(p)
    \/ \E p \in Pids : \E out \in ExitOutcomes(children[p]) : ChildExit(p, out)
    \/ ReceiveEvent
    \/ HandlerRecv
    \/ HandlerWake
    \/ \E d \in Timers : TickInTime(d)

SpecC38 == Init2 /\ [][NextC38]_vars

\* C38: the wake-up of a label is not delayed by the backoffs of other
\* labels: when the deadline backoff_until of a job in Backoff has passed,
\* its request is not waiting in the channel behind the sleep for another
\* label, and the handler is not at the start of a sleep for it
C38_WakeUpAtOwnDeadline ==
    \A l \in AllLabels :
        (/\ Loaded(l)
         /\ jobs[l].state = Backoff
         /\ jobs[l].backoff_until = Some(0))
        => ~(/\ handler.pc = "sleep"
             /\ handler.wake > 0
             /\ \/ handler.label = l
                \/ \E i \in 1..Len(restartQ) : restartQ[i].label = l)
====
